---- MODULE Spec2Model ----
(***************************************************************************)
(* rssdeduper: the cross-feed deduplication engine (src/src/rss.rs), the   *)
(* identity extractor (src/src/ids.rs), and the scheduler that drives them *)
(* (src/src/main.rs, src/src/timer.rs).                                    *)
(*                                                                         *)
(* Strings are sequences of one-character strings, so that the regular     *)
(* expressions and the URL parser of ids.rs can be computed on them.       *)
(* Instants are counted in ticks of half an hour.                          *)
(*                                                                         *)
(* Spec is the scheduler run over the feed list; SpecRetention applies the *)
(* date check of the retention filter to one item, for every max_age;     *)
(* SpecIds applies the identity extraction to one link string.             *)
(* The emitter cannot fail on a tree that was parsed, so the write error   *)
(* of rss.rs:204 has no step here.                                         *)
(***************************************************************************)
EXTENDS Integers, Sequences, FiniteSets, TLC

(***************************************************************************)
(* Bounds of the model.                                                    *)
(***************************************************************************)
\* the clock starts at StartNow and is followed up to MaxNow (ticks)
MaxNow == 5
\* number of date changes followed
MaxDay == 1
\* iterations of periodic_task followed when max_iterations = 0 (unlimited)
MaxCounter == 2

(***************************************************************************)
(* Integer widths, scaled: u64 and i64 are modelled with IntBits bits, and *)
(* chrono's Duration accepts an hour count up to MaxDurationHours (in      *)
(* chrono i64::MAX milliseconds, about 2.5e12 hours; far below i64::MAX).  *)
(***************************************************************************)
IntBits == 5
MaxDurationHours == 7
TicksPerHour == 2
StartNow == 4

U64Max == 2^IntBits - 1
I64Max == 2^(IntBits - 1) - 1

\* `max_age as i64` (rss.rs:30): two's complement reinterpretation
AsI64(u) == IF u > I64Max THEN u - 2^IntBits ELSE u

(***************************************************************************)
(* Characters and strings.                                                 *)
(***************************************************************************)
Digits == {"0", "1", "2", "3", "4", "5", "6", "7", "8", "9"}
HexLetters == {"a", "b", "c", "d", "e", "f", "A", "B", "C", "D", "E", "F"}
HexDigits == Digits \cup HexLetters
Letters == HexLetters \cup {"h", "m", "n", "s", "x", "y", "z", "H", "M", "N", "S", "X"}

DigitVal(c) ==
    CASE c = "0" -> 0 [] c = "1" -> 1 [] c = "2" -> 2 [] c = "3" -> 3
      [] c = "4" -> 4 [] c = "5" -> 5 [] c = "6" -> 6 [] c = "7" -> 7
      [] c = "8" -> 8 [] c = "9" -> 9

DigitChar(n) ==
    CASE n = 0 -> "0" [] n = 1 -> "1" [] n = 2 -> "2" [] n = 3 -> "3"
      [] n = 4 -> "4" [] n = 5 -> "5" [] n = 6 -> "6" [] n = 7 -> "7"
      [] n = 8 -> "8" [] n = 9 -> "9"

\* ASCII lower-casing, as the URL parser applies it to the host
LowerChar(c) ==
    CASE c = "A" -> "a" [] c = "B" -> "b" [] c = "C" -> "c" [] c = "D" -> "d"
      [] c = "E" -> "e" [] c = "F" -> "f" [] c = "H" -> "h" [] c = "M" -> "m"
      [] c = "N" -> "n" [] c = "S" -> "s" [] c = "X" -> "x" [] OTHER -> c

Lower(s) == [i \in 1..Len(s) |-> LowerChar(s[i])]

Min(S) == CHOOSE x \in S : \A y \in S : x <= y

Max(S) == CHOOSE x \in S : \A y \in S : x >= y

\* index of the first character of s, at or after from, that is in set; Len(s)+1 if none
FirstIn(s, from, set) ==
    LET hits == {i \in from..Len(s) : s[i] \in set}
    IN IF hits = {} THEN Len(s) + 1 ELSE Min(hits)

Slice(s, from, to) == [i \in 1..(to - from + 1) |-> s[from + i - 1]]

(***************************************************************************)
(* Url::parse, for the shapes of link the model feeds it:                  *)
(*   scheme "://" host path ["?" query] ["#" fragment]   (a host is there) *)
(*   scheme ":" opaque-path ["?" query] ["#" fragment]   (no host)         *)
(* A string without a scheme (a relative reference, the empty string) is   *)
(* not parseable, nor is a "//" authority with an empty host.              *)
(***************************************************************************)
NotUrl == [ok |-> FALSE, has_host |-> FALSE, host |-> <<>>, path |-> <<>>]

SchemeOk(url, colon) ==
    /\ colon >= 2
    /\ colon <= Len(url)
    /\ \A i \in 1..(colon - 1) : url[i] \in Letters

Slashes(url, colon) ==
    /\ colon + 2 <= Len(url)
    /\ url[colon + 1] = "/"
    /\ url[colon + 2] = "/"

\* the path runs up to the query or the fragment
PathFrom(url, from) == Slice(url, from, FirstIn(url, from, {"?", "#"}) - 1)

PathOrRoot(path) == IF path = <<>> THEN <<"/">> ELSE path

UrlWithHost(url, hostFrom, hostEnd) ==
    IF hostEnd = hostFrom THEN NotUrl
    ELSE [ok |-> TRUE, has_host |-> TRUE,
          host |-> Lower(Slice(url, hostFrom, hostEnd - 1)),
          path |-> PathOrRoot(PathFrom(url, hostEnd))]

UrlAfterScheme(url, colon) ==
    IF ~SchemeOk(url, colon) THEN NotUrl
    ELSE IF Slashes(url, colon)
    THEN UrlWithHost(url, colon + 3, FirstIn(url, colon + 3, {"/", "?", "#"}))
    ELSE [ok |-> TRUE, has_host |-> FALSE, host |-> <<>>,
          path |-> PathFrom(url, colon + 1)]

UrlParse(url) == UrlAfterScheme(url, FirstIn(url, 1, {":"}))

(***************************************************************************)
(* UUID_REGEX (ids.rs:10-12): the character class at each of the 36        *)
(* positions of the pattern, and the leftmost match in a path.             *)
(***************************************************************************)
UuidLen == 36

UuidClass(k) ==
    IF k \in {9, 14, 19, 24} THEN {"-"}
    ELSE IF k = 15 THEN {"1", "2", "3", "4", "5"}
    ELSE IF k = 20 THEN {"8", "9", "a", "b", "A", "B"}
    ELSE HexDigits

UuidMatchAt(path, i) ==
    /\ i + UuidLen - 1 <= Len(path)
    /\ \A k \in 1..UuidLen : path[i + k - 1] \in UuidClass(k)

\* UUID_REGEX.captures(path): 0 when there is no match, else the start of the leftmost
UuidFind(path) ==
    LET hits == {i \in 1..Len(path) : UuidMatchAt(path, i)}
    IN IF hits = {} THEN 0 ELSE Min(hits)

(***************************************************************************)
(* NUMBER_REGEX (ids.rs:14): [0-9_]{6}[0-9_]*, leftmost and greedy.        *)
(***************************************************************************)
NumberMinLen == 6
NumberClass == Digits \cup {"_"}

NumberMatchAt(path, i) ==
    /\ i + NumberMinLen - 1 <= Len(path)
    /\ \A k \in 0..(NumberMinLen - 1) : path[i + k] \in NumberClass

NumberFind(path) ==
    LET hits == {i \in 1..Len(path) : NumberMatchAt(path, i)}
    IN IF hits = {} THEN 0 ELSE Min(hits)

\* the end of the greedy match that starts at i
NumberEnd(path, i) == FirstIn(path, i, {path[k] : k \in 1..Len(path)} \ NumberClass) - 1

(***************************************************************************)
(* extract_unique_id_and_host_from_url_string (ids.rs:19-35).              *)
(* kind: "some" (id, host), "none" (not a URL), or "panic" (host().unwrap()*)
(* on a URL without a host).                                               *)
(***************************************************************************)
\* ids.rs:29-33: the number, else the link itself
NumberOrUrl(url, path, n) ==
    IF n # 0 THEN Slice(path, n, NumberEnd(path, n)) ELSE url

\* an extraction that looks for the number before the UUID
IdOfNumberFirst(url, path, u) ==
    IF NumberFind(path) # 0 THEN Slice(path, NumberFind(path), NumberEnd(path, NumberFind(path)))
    ELSE IF u # 0 THEN Slice(path, u, u + UuidLen - 1)
    ELSE url

\* ids.rs:22-33
IdOf(url, path, u) ==
    IF u # 0 THEN Slice(path, u, u + UuidLen - 1)
    ELSE NumberOrUrl(url, path, NumberFind(path))

ExtractParsed(url, parsed_url) ==
    IF ~parsed_url.ok THEN [kind |-> "none", id |-> <<>>, host |-> <<>>]
    ELSE IF ~parsed_url.has_host THEN [kind |-> "panic", id |-> <<>>, host |-> <<>>]
    ELSE [kind |-> "some",
          id |-> IdOf(url, parsed_url.path, UuidFind(parsed_url.path)),
          host |-> parsed_url.host]

extract_unique_id_and_host_from_url_string(url) == ExtractParsed(url, UrlParse(url))

(***************************************************************************)
(* Publish dates.  The text <<"d", c>> with c a digit stands for the       *)
(* RFC 2822 rendering of the instant DigitVal(c); every other text (the    *)
(* empty one included) is rejected by DateTime::parse_from_rfc2822.        *)
(***************************************************************************)
DateText(t) == <<"d", DigitChar(t)>>

parse_from_rfc2822(text) ==
    IF Len(text) = 2 /\ text[1] = "d" /\ text[2] \in Digits
    THEN [ok |-> TRUE, t |-> DigitVal(text[2])]
    ELSE [ok |-> FALSE, t |-> 0]

(***************************************************************************)
(* Duration::hours(h): panics when h hours are out of the range of a       *)
(* Duration.  ok = FALSE stands for the panic.                             *)
(***************************************************************************)
DurationHours(h) ==
    IF h > MaxDurationHours \/ h < -MaxDurationHours
    THEN [ok |-> FALSE, ticks |-> 0]
    ELSE [ok |-> TRUE, ticks |-> h * TicksPerHour]

\* rss.rs:30, for a date that parsed
NotOlderThan(age, bound) ==
    IF ~bound.ok THEN "panic"
    ELSE IF age <= bound.ticks THEN "true"
    ELSE "false"

\* rss.rs:27-34
CheckParsed(pub_date_utc, max_age, nowutc) ==
    IF ~pub_date_utc.ok THEN "false"
    ELSE NotOlderThan(nowutc - pub_date_utc.t, DurationHours(AsI64(max_age)))

(***************************************************************************)
(* check_pub_date_not_older_than (rss.rs:22-35): "true", "false" or        *)
(* "panic".                                                                *)
(***************************************************************************)
check_pub_date_not_older_than(pub_date, max_age, nowutc) ==
    IF max_age = 0 THEN "true"
    ELSE CheckParsed(parse_from_rfc2822(pub_date), max_age, nowutc)

(***************************************************************************)
(* xmltree: a node is an element or a text node.  An element's attributes  *)
(* are a set of <<name, value>> pairs.                                     *)
(***************************************************************************)
Text(s) == [name |-> "#text", attrs |-> {}, text |-> s, children |-> <<>>]

Elem(name, attrs, children) ==
    [name |-> name, attrs |-> attrs, text |-> <<>>, children |-> children]

\* XMLNode::as_element
IsElement(node) == node.name # "#text"

ChildIndexes(element, name) ==
    {i \in 1..Len(element.children) :
        IsElement(element.children[i]) /\ element.children[i].name = name}

HasChild(element, name) == ChildIndexes(element, name) # {}

\* Element::get_child: the first child element of that name
get_child(element, name) == element.children[Min(ChildIndexes(element, name))]

HasText(element) == \E i \in 1..Len(element.children) : ~IsElement(element.children[i])

RECURSIVE ConcatText(_, _)
ConcatText(children, i) ==
    IF i > Len(children) THEN <<>>
    ELSE IF IsElement(children[i]) THEN ConcatText(children, i + 1)
    ELSE children[i].text \o ConcatText(children, i + 1)

\* Element::get_text().unwrap_or_default(): the text children joined, "" without any
get_text_or_default(element) == ConcatText(element.children, 1)

HasAttr(element, name) == \E a \in element.attrs : a[1] = name

Attr(element, name) == (CHOOSE a \in element.attrs : a[1] = name)[2]

(***************************************************************************)
(* ExistingItemsMap (rss.rs:12): identity <<id, host>> -> entry.           *)
(***************************************************************************)
EmptyMap == [k \in {} |-> k]

Insert(map, key, value) ==
    [k \in (DOMAIN map) \cup {key} |-> IF k = key THEN value ELSE map[k]]

DefaultIdentity == <<<<>>, <<>>>>

\* an unwrap that gives each failed extraction an identity of its own kind
IdentityOrKind(extracted) ==
    IF extracted.kind = "some" THEN <<extracted.id, extracted.host>>
    ELSE <<<<extracted.kind>>, <<>>>>

\* Option<(String, String)>::unwrap_or_default
IdentityOf(extracted) ==
    IF extracted.kind = "some" THEN <<extracted.id, extracted.host>> ELSE DefaultIdentity

\* extract_unique_id_and_host_from_url_string(&link.get_text().unwrap_or_default())
ExtractOfItem(item) ==
    extract_unique_id_and_host_from_url_string(get_text_or_default(get_child(item, "link")))

(***************************************************************************)
(* traverse_and_modify, rss.rs:46-61: the channel link of a channel        *)
(* element becomes the current channel.                                    *)
(***************************************************************************)
\* the Err values of rss.rs:59 and rss.rs:55: the message, in its parts
LinkMissing == <<"Channel link is missing">>
HrefEmpty == <<"Channel link href is empty, too">>

ChannelOk(channel) == [status |-> "ok", channel |-> channel, error |-> <<>>]
ChannelErr(channel, error) == [status |-> "err", channel |-> channel, error |-> error]

\* a channel step that looks at the href attribute before the text
ChannelStepHrefFirst(element, channel) ==
    IF element.name # "channel" THEN ChannelOk(channel)
    ELSE IF ~HasChild(element, "link") THEN ChannelErr(channel, LinkMissing)
    ELSE IF HasAttr(get_child(element, "link"), "href")
    THEN ChannelOk(Attr(get_child(element, "link"), "href"))
    ELSE IF HasText(get_child(element, "link"))
    THEN ChannelOk(get_text_or_default(get_child(element, "link")))
    ELSE ChannelErr(channel, HrefEmpty)

ChannelStep(element, channel) ==
    IF element.name # "channel" THEN ChannelOk(channel)
    ELSE IF ~HasChild(element, "link") THEN ChannelErr(channel, LinkMissing)
    ELSE LET link == get_child(element, "link")
         IN IF HasText(link)
            THEN ChannelOk(get_text_or_default(link))
            ELSE IF HasAttr(link, "href")
                 THEN ChannelOk(Attr(link, "href"))
                 ELSE ChannelErr(channel, HrefEmpty)

(***************************************************************************)
(* traverse_and_modify, rss.rs:62-85: an item with a link is registered,   *)
(* or rewritten to the payload registered by its own channel.              *)
(***************************************************************************)
Step(status, element, existing_items) ==
    [status |-> status, element |-> element, existing_items |-> existing_items]

\* a registry where the last writer wins: the entry is written on every sighting
ItemLookupOverwrite(element, id, existing_items, channel, now) ==
    Step("ok", element,
         Insert(existing_items, id,
                [channel |-> channel, element |-> element, time |-> now]))

\* rss.rs:68-83
ItemLookup(element, id, existing_items, channel, now) ==
    IF id \in DOMAIN existing_items
    THEN IF existing_items[id].channel = channel
         THEN Step("ok",
                   [element EXCEPT !.children = existing_items[id].element.children],
                   existing_items)
         ELSE Step("ok", element, existing_items)
    ELSE Step("ok", element,
              Insert(existing_items, id,
                     [channel |-> channel, element |-> element, time |-> now]))

\* rss.rs:64-67
ItemResolved(element, extracted, existing_items, channel, now) ==
    IF extracted.kind = "panic" THEN Step("panic", element, existing_items)
    ELSE ItemLookup(element, IdentityOf(extracted), existing_items, channel, now)

ItemStep(element, existing_items, channel, now) ==
    IF element.name # "item" \/ ~HasChild(element, "link")
    THEN Step("ok", element, existing_items)
    ELSE ItemResolved(element, ExtractOfItem(element), existing_items, channel, now)

(***************************************************************************)
(* traverse_and_modify, rss.rs:87-131: the closure of children.retain.     *)
(* "keep", "drop", or "panic".                                             *)
(***************************************************************************)
\* the closure without its cross-channel branch: every resolved item stays
RetainLookupKeepAll(id, existing_items, channel) == "keep"

\* rss.rs:102-126
RetainLookup(id, existing_items, channel) ==
    IF id \in DOMAIN existing_items
    THEN IF existing_items[id].channel = channel THEN "keep" ELSE "drop"
    ELSE "keep"

\* rss.rs:99-101
RetainResolved(extracted, existing_items, channel) ==
    IF extracted.kind = "panic" THEN "panic"
    ELSE RetainLookup(IdentityOf(extracted), existing_items, channel)

\* rss.rs:93-98: only an item that has a pubDate child is checked
PubDateVerdict(item, max_age, nowutc) ==
    IF HasChild(item, "pubDate")
    THEN check_pub_date_not_older_than(get_text_or_default(get_child(item, "pubDate")),
                                       max_age, nowutc)
    ELSE "true"

\* the closure without its date branch: an expired item goes on to resolution
RetainAgedIgnoringDate(child, fresh, existing_items, channel) ==
    RetainResolved(ExtractOfItem(child), existing_items, channel)

\* rss.rs:94-101
RetainAged(child, fresh, existing_items, channel) ==
    IF fresh = "panic" THEN "panic"
    ELSE IF fresh = "false" THEN "drop"
    ELSE RetainResolved(ExtractOfItem(child), existing_items, channel)

\* a closure whose last line answers false for a node that is no element
RetainVerdictElementsOnly(child, existing_items, channel, max_age, nowutc) ==
    IF ~IsElement(child) THEN "drop"
    ELSE IF child.name # "item" \/ ~HasChild(child, "link") THEN "keep"
    ELSE RetainAged(child, PubDateVerdict(child, max_age, nowutc), existing_items,
                    channel)

\* a closure that checks the date of an item before it looks for the link
RetainVerdictDateFirst(child, existing_items, channel, max_age, nowutc) ==
    IF ~IsElement(child) \/ child.name # "item" THEN "keep"
    ELSE IF ~HasChild(child, "link")
    THEN IF PubDateVerdict(child, max_age, nowutc) = "true" THEN "keep" ELSE "drop"
    ELSE RetainAged(child, PubDateVerdict(child, max_age, nowutc), existing_items,
                    channel)

RetainVerdict(child, existing_items, channel, max_age, nowutc) ==
    IF ~IsElement(child) \/ child.name # "item" \/ ~HasChild(child, "link")
    THEN "keep"
    ELSE RetainAged(child, PubDateVerdict(child, max_age, nowutc), existing_items,
                    channel)

\* a retain that hands the kept children back in reverse order
RECURSIVE RetainedReversed(_, _, _)
RetainedReversed(children, verdicts, i) ==
    IF i > Len(children) THEN <<>>
    ELSE IF verdicts[i] = "keep"
    THEN RetainedReversed(children, verdicts, i + 1) \o <<children[i]>>
    ELSE RetainedReversed(children, verdicts, i + 1)

\* Vec::retain: the children whose verdict is "keep", in their order
RECURSIVE Retained(_, _, _)
Retained(children, verdicts, i) ==
    IF i > Len(children) THEN <<>>
    ELSE IF verdicts[i] = "keep"
    THEN <<children[i]>> \o Retained(children, verdicts, i + 1)
    ELSE Retained(children, verdicts, i + 1)

(***************************************************************************)
(* traverse_and_modify (rss.rs:37-140).  The result carries the status     *)
(* ("ok", "err" for Err(..), "panic"), the rewritten element, and the two  *)
(* values the function has by mutable reference: the registry and the      *)
(* current channel.  One instant stands for the now of every call of one   *)
(* pass.                                                                   *)
(***************************************************************************)
RECURSIVE traverse_and_modify(_, _, _, _, _)
RECURSIVE TraverseChildren(_, _, _, _, _, _)

Result(status, element, existing_items, channel) ==
    [status |-> status, element |-> element, existing_items |-> existing_items,
     channel |-> channel, error |-> <<>>]

\* rss.rs:136: the call on child i has returned r
ChildDone(element, i, r, max_age, now) ==
    IF r.status # "ok"
    THEN [r EXCEPT !.element = element]
    ELSE TraverseChildren([element EXCEPT !.children[i] = r.element], i + 1,
                          r.existing_items, r.channel, max_age, now)

\* rss.rs:133-138: the loop over the children, from child i on
TraverseChildren(element, i, existing_items, channel, max_age, now) ==
    IF i > Len(element.children)
    THEN Result("ok", element, existing_items, channel)
    ELSE IF ~IsElement(element.children[i])
    THEN TraverseChildren(element, i + 1, existing_items, channel, max_age, now)
    ELSE ChildDone(element, i,
                   traverse_and_modify(element.children[i], existing_items, channel,
                                       max_age, now),
                   max_age, now)

\* rss.rs:87-138, with the verdicts of the retain closure
AfterRetain(element, verdicts, existing_items, channel, max_age, now) ==
    IF \E i \in 1..Len(verdicts) : verdicts[i] = "panic"
    THEN Result("panic", element, existing_items, channel)
    ELSE TraverseChildren(
             [element EXCEPT !.children = Retained(element.children, verdicts, 1)],
             1, existing_items, channel, max_age, now)

\* rss.rs:62-138, with the result s of lines 62-85
AfterItem(s, channel, max_age, now) ==
    IF s.status = "panic"
    THEN Result("panic", s.element, s.existing_items, channel)
    ELSE AfterRetain(s.element,
                     [i \in 1..Len(s.element.children) |->
                         RetainVerdict(s.element.children[i], s.existing_items,
                                       channel, max_age, now)],
                     s.existing_items, channel, max_age, now)

\* rss.rs:46-138, with the result c of lines 46-61
AfterChannel(element, c, existing_items, max_age, now) ==
    IF c.status = "err"
    THEN [Result("err", element, existing_items, c.channel) EXCEPT !.error = c.error]
    ELSE AfterItem(ItemStep(element, existing_items, c.channel, now), c.channel,
                   max_age, now)

traverse_and_modify(element, existing_items, channel, max_age, now) ==
    AfterChannel(element, ChannelStep(element, channel), existing_items, max_age, now)

(***************************************************************************)
(* Feed text.  A text is the document it holds (an element tree, or        *)
(* "#malformed" / "#empty" when it is not well-formed XML), its layout     *)
(* ("source" as fetched, "emitted" as written by the emitter with fixed    *)
(* indentation), and its lines that start with <lastBuildDate>, trimmed.   *)
(***************************************************************************)
BuildLine(marker) == <<"<lastBuildDate>">> \o marker \o <<"</lastBuildDate>">>

RECURSIVE BuildLines(_)
RECURSIVE BuildLinesOfChildren(_, _)
BuildLinesOfChildren(children, i) ==
    IF i > Len(children) THEN <<>>
    ELSE BuildLines(children[i]) \o BuildLinesOfChildren(children, i + 1)

\* the <lastBuildDate> lines of the emitted text of a node, in document order
BuildLines(node) ==
    IF ~IsElement(node) THEN <<>>
    ELSE IF node.name = "lastBuildDate" /\ \A i \in 1..Len(node.children) : ~IsElement(node.children[i])
         THEN <<BuildLine(get_text_or_default(node))>>
         ELSE BuildLinesOfChildren(node.children, 1)

SourceText(tree) == [xml |-> tree, layout |-> "source", build |-> BuildLines(tree)]

MalformedText(build) ==
    [xml |-> Elem("#malformed", {}, <<>>), layout |-> "source", build |-> build]

\* String::new()
EmptyText == [xml |-> Elem("#empty", {}, <<>>), layout |-> "source", build |-> <<>>]

\* Element::parse (rss.rs:191)
ParseOk(content) == content.xml.name \notin {"#malformed", "#empty"}

\* Element::write_with_config with the fixed EmitterConfig (rss.rs:196-205)
Emit(tree) == [xml |-> tree, layout |-> "emitted", build |-> BuildLines(tree)]

(***************************************************************************)
(* The documents the feeds serve.                                          *)
(***************************************************************************)
Https == <<"h", ":", "/", "/">>
ChannelA == Https \o <<"a", "/", "n">>
ChannelB == Https \o <<"a", "/", "s">>
ChannelN == Https \o <<"a", "/", "x">>

\* identity (123456, a); LinkXq is another link of the same article
LinkX == Https \o <<"a", "/", "n", "/", "1", "2", "3", "4", "5", "6">>
LinkXq == Https \o <<"A", "/", "s", "/", "1", "2", "3", "4", "5", "6", "?", "s">>
LinkY == Https \o <<"a", "/", "6", "5", "4", "3", "2", "1">>
LinkZ == Https \o <<"a", "/", "7", "7", "7", "_", "7", "7">>
\* no UUID, no number: the link itself is the id
LinkW == Https \o <<"a", "/", "x", "y">>
\* no scheme: Url::parse fails on it, as it does on the empty text
LinkR == <<"n", "/", "1", "2", "3", "4", "5", "6">>

LinkEl(url) == Elem("link", {}, <<Text(url)>>)
EmptyLinkEl == Elem("link", {}, <<>>)
HrefLinkEl(url) == Elem("link", {<<"href", url>>}, <<>>)
PubDate(text) == Elem("pubDate", {}, <<Text(text)>>)
EmptyPubDate == Elem("pubDate", {}, <<>>)
Title(text) == Elem("title", {}, <<Text(text)>>)
LastBuildDate(marker) == Elem("lastBuildDate", {}, <<Text(marker)>>)
\* the attribute n names the item; a rewrite of the children leaves it alone
Item(n, children) == Elem("item", {<<"n", <<n>>>>}, children)
Rss(children) == Elem("rss", {}, children)

DocA1 ==
    Rss(<<Elem("channel", {}, <<
        LinkEl(ChannelA), LastBuildDate(<<"1">>), Title(<<"A">>),
        Item("a1", <<LinkEl(LinkX), PubDate(DateText(2)), Title(<<"t", "1">>)>>),
        Item("a2", <<LinkEl(LinkXq), PubDate(DateText(4)), Title(<<"t", "2">>)>>),
        Item("a3", <<LinkEl(LinkY), PubDate(DateText(1)), Title(<<"t", "1">>)>>),
        Item("a4", <<PubDate(DateText(1)), Title(<<"t", "1">>)>>) >>)>>)

\* a second lastBuildDate line repeats the marker of DocA1
DocA2 ==
    Rss(<<Elem("channel", {}, <<
        LinkEl(ChannelA), LastBuildDate(<<"2">>), Title(<<"A">>),
        Item("a5", <<LinkEl(LinkX), PubDate(DateText(4)), Title(<<"t", "3">>)>>),
        Item("a6", <<LinkEl(LinkZ), PubDate(<<"x">>), Title(<<"t", "1">>)>>),
        Item("a0", <<LinkEl(LinkR), Title(<<"t", "2">>)>>),
        LastBuildDate(<<"1">>) >>)>>)

\* a channel nested in the channel, with items of the outer channel after it
DocA3 ==
    Rss(<<Elem("channel", {}, <<
        LinkEl(ChannelA), Title(<<"A">>),
        Item("a7", <<LinkEl(LinkY), Title(<<"t", "2">>)>>),
        Elem("channel", {}, <<
            LinkEl(ChannelN),
            Item("n1", <<LinkEl(LinkZ), PubDate(DateText(4)), Title(<<"t", "2">>)>>) >>),
        Item("a8", <<LinkEl(LinkY), Title(<<"t", "3">>)>>),
        Item("a9", <<LinkEl(LinkW), Title(<<"t", "1">>)>>) >>)>>)

\* the channel link is given by its href attribute only
DocB1 ==
    Rss(<<Elem("channel", {}, <<
        HrefLinkEl(ChannelB), LastBuildDate(<<"1">>), Title(<<"B">>),
        Item("b1", <<LinkEl(LinkXq), PubDate(DateText(4)), Title(<<"t", "2">>)>>),
        Item("b2", <<LinkEl(LinkZ), PubDate(DateText(7)), Title(<<"t", "1">>)>>),
        Item("b3", <<LinkEl(LinkW), EmptyPubDate, Title(<<"t", "2">>)>>),
        Item("b0", <<EmptyLinkEl, PubDate(DateText(4)), Title(<<"t", "3">>)>>) >>)>>)

\* two channels: the link of the first has a text and an href, the second has no link
DocB2 ==
    Rss(<<Elem("channel", {}, <<
              Elem("link", {<<"href", ChannelA>>}, <<Text(ChannelB)>>), Title(<<"B">>),
              Item("b4", <<LinkEl(LinkY), PubDate(DateText(3)), Title(<<"t", "3">>)>>) >>),
          Elem("channel", {}, <<
              Title(<<"C">>),
              Item("b5", <<LinkEl(LinkZ), Title(<<"t", "1">>)>>) >>) >>)

\* the feed list (utilities.rs:59, read_feeds): source URLs in their order
Urls == <<"fa", "fb">>
UrlSet == {Urls[i] : i \in 1..Len(Urls)}

\* what a fetch of the URL may return
Served(url) ==
    IF url = "fa"
    THEN {SourceText(DocA1), SourceText(DocA2), SourceText(DocA3),
          MalformedText(<<BuildLine(<<"3">>)>>)}
    ELSE {SourceText(DocB1), SourceText(DocB2)}

\* the values of max_age (hours) a run may be configured with
ConfigMaxAges == {0, 1, MaxDurationHours + 1, U64Max}

(***************************************************************************)
(* The program state.                                                      *)
(***************************************************************************)
VARIABLES
    known_feeds,     \* main.rs:78   the registry, RefCell<ExistingItemsMap>
    feed_map,        \* main.rs:79   url -> Feed (content, last_build_date)
    files,           \* the target files: url -> the file published for that feed
    tmpfiles,        \* the "<filename>.tmp" files: url -> file
    max_age,         \* the max_age argument of remove_duplicates (hours)
    max_iterations,  \* cli.it
    now,             \* the clock, in ticks
    today,           \* Local::now().date_naive()
    last_run,        \* timer.rs:12
    counter,         \* timer.rs:13
    pc,              \* where periodic_task / the closure f1 stands
    idx,             \* the position of f1's loop in the feed list
    pass,            \* the current feed's pass: its input, the registry before it, its results
    probe,           \* a call of the retention filter on one item, and its result
    borrows,         \* the RefMut guards of the registry's RefCell that are alive
    extraction,      \* a call of the identity extraction on one link, and its result
    calls,           \* the calls periodic_task has made to its closures, with their date
    opml             \* a regeneration of the feed list: its inputs and its results

vars == <<known_feeds, feed_map, files, tmpfiles, max_age, max_iterations, now,
          today, last_run, counter, pc, idx, pass, probe, borrows, extraction,
          calls, opml>>

\* RefCell<ExistingItemsMap> (main.rs:78): borrow_mut panics with "already
\* borrowed" while a guard is alive, else it hands out a guard; the guard is
\* given back when it is dropped
BorrowConflict(b) == b # 0
BorrowMut(b) == b + 1

\* a guard that is never given back
DropLeaked(b) == b

DropRefMut(b) == b - 1

MaxIterations == 2

NoPass ==
    [url |-> "", marker |-> <<>>, input |-> EmptyText, read |-> "none",
     before |-> EmptyMap, at |-> 0, dedup |-> "none", target |-> <<>>, write |-> "none",
     error |-> <<>>]

NoProbe == [item |-> Elem("item", {}, <<>>), verdict |-> "none"]

NoOpml ==
    [source |-> Elem("opml", {}, <<>>), previous |-> <<>>,
     target |-> Elem("opml", {}, <<>>), feeds |-> <<>>, done |-> FALSE]

Pending == [kind |-> "pending", id |-> <<>>, host |-> <<>>]
NoExtraction == [link |-> <<>>, result |-> Pending]

\* Feed::new (rss.rs:143-150)
\* main.rs:85-90: the feed list pairs each url with the file name that
\* convert_url_to_unique_filename gave it (a uuid, then the url with every
\* character outside the file name alphabet replaced), in the target directory
Filenames == <<"td/u1_fa.rss", "td/u2_fb.rss">>

Filename(url) == Filenames[CHOOSE i \in DOMAIN Urls : Urls[i] = url]

NewFeed(url) ==
    [url |-> url, filename |-> Filename(url), content |-> EmptyText,
     last_build_date |-> <<>>]

Init ==
    /\ known_feeds = EmptyMap
    /\ feed_map = EmptyMap
    /\ files = EmptyMap
    /\ tmpfiles = EmptyMap
    /\ max_age \in ConfigMaxAges
    /\ max_iterations \in {0, MaxIterations}
    /\ now = StartNow
    /\ today = 0
    /\ last_run = 0
    /\ counter = 0
    /\ pc = "top"
    /\ idx = 0
    /\ pass = NoPass
    /\ probe = NoProbe
    /\ borrows = 0
    /\ extraction = NoExtraction
    /\ calls = <<>>
    /\ opml = NoOpml

(***************************************************************************)
(* timer.rs:14-33 and main.rs:119-122: the date has changed since the last *)
(* reset, f2 clears the registry.                                          *)
(***************************************************************************)
Clear ==
    /\ pc = "top"
    /\ today # last_run
    /\ IF BorrowConflict(borrows)
       THEN /\ pc' = "already_borrowed"
            /\ UNCHANGED <<known_feeds, last_run, borrows>>
       ELSE /\ known_feeds' = EmptyMap
            /\ borrows' = DropRefMut(BorrowMut(borrows))
            /\ last_run' = today
            /\ pc' = pc
    /\ UNCHANGED <<feed_map, files, tmpfiles, max_age, max_iterations, now, today,
                   counter, idx, pass, probe, extraction, calls, opml>>

(***************************************************************************)
(* timer.rs:34-35 and main.rs:82-85: f1 starts and gets the feed list.     *)
(***************************************************************************)
StartF1 ==
    /\ pc = "top"
    /\ today = last_run
    /\ pc' = "read"
    /\ idx' = 1
    /\ pass' = NoPass
    /\ UNCHANGED <<known_feeds, feed_map, files, tmpfiles, max_age, max_iterations,
                   now, today, last_run, counter, probe, borrows, extraction, calls,
                   opml>>

(***************************************************************************)
(* main.rs:85/117 and timer.rs:36-42: the feed is done; the next feed, or  *)
(* the end of the iteration.                                               *)
(***************************************************************************)
FeedDone ==
    IF idx < Len(Urls)
    THEN /\ pc' = "read"
         /\ idx' = idx + 1
         /\ counter' = counter
    ELSE /\ idx' = 0
         /\ counter' = counter + 1
         /\ pc' = IF max_iterations > 0 /\ counter + 1 >= max_iterations
                  THEN "done" ELSE "sleep"

(***************************************************************************)
(* Feed::read (rss.rs:154-175), called at main.rs:86-93.                   *)
(***************************************************************************)
\* entry(url).or_insert_with(Feed::new)
FeedOf(map, url) == IF url \in DOMAIN map THEN map[url] ELSE NewFeed(url)

\* the Err values of rss.rs:156-159, 192, 204 and 213-217: the message, in its parts
\* (the last part stands for the cause the library reported)
ReadError(feed) == <<"Feed ", feed.url, " cannot be read: ", "e">>
ParseError(feed) == <<"RSS feed ", feed.url, " XML parse error: ", "e">>
TmpFilename(feed) == <<feed.filename, ".tmp">>
WriteError(feed, outcome) ==
    IF outcome = "create_failed"
    THEN <<"Temporary file ">> \o TmpFilename(feed) \o <<" cannot be created: ", "e">>
    ELSE IF outcome = "write_failed"
    THEN <<"Temporary file ">> \o TmpFilename(feed) \o <<" cannot be written: ", "e">>
    ELSE IF outcome = "rename_failed"
    THEN <<"File ">> \o TmpFilename(feed) \o <<" cannot be renamed: ", "e">>
    ELSE <<>>

\* a read that reports the change but leaves the stored marker as it was
ReadResultMarkerNotStored(feed, text) ==
    IF text.build # <<>>
    THEN [feed |-> [feed EXCEPT !.content = text],
          modified |-> feed.last_build_date # text.build[1]]
    ELSE [feed |-> [feed EXCEPT !.content = text], modified |-> TRUE]

\* a read without the shortcut: every text that was fetched counts as modified
ReadResultAlwaysModified(feed, text) ==
    IF text.build # <<>>
    THEN [feed |-> [feed EXCEPT !.content = text, !.last_build_date = text.build[1]],
          modified |-> TRUE]
    ELSE [feed |-> [feed EXCEPT !.content = text], modified |-> TRUE]

\* the result of read() for the fetched text: the feed after it, and Ok(modified)
ReadResult(feed, text) ==
    IF text.build # <<>>
    THEN [feed |-> [feed EXCEPT !.content = text, !.last_build_date = text.build[1]],
          modified |-> feed.last_build_date # text.build[1]]
    ELSE [feed |-> [feed EXCEPT !.content = text], modified |-> TRUE]

ReadFails ==
    /\ pc = "read"
    /\ feed_map' = Insert(feed_map, Urls[idx], FeedOf(feed_map, Urls[idx]))
    /\ pass' = [NoPass EXCEPT !.url = Urls[idx],
                              !.marker = FeedOf(feed_map, Urls[idx]).last_build_date,
                              !.read = "failed",
                              !.error = ReadError(FeedOf(feed_map, Urls[idx]))]
    /\ FeedDone
    /\ UNCHANGED <<known_feeds, files, tmpfiles, max_age, max_iterations, now, today,
                   last_run, probe, borrows, extraction, calls, opml>>

Read ==
    /\ pc = "read"
    /\ \E text \in Served(Urls[idx]) :
          LET r == ReadResult(FeedOf(feed_map, Urls[idx]), text)
          IN /\ feed_map' = Insert(feed_map, Urls[idx], r.feed)
             /\ pass' = [NoPass EXCEPT !.url = Urls[idx],
                                       !.marker = FeedOf(feed_map, Urls[idx]).last_build_date,
                                       !.input = text,
                                       !.read = IF r.modified THEN "changed" ELSE "unchanged"]
             /\ IF r.modified
                THEN /\ pc' = "dedup"
                     /\ UNCHANGED <<idx, counter>>
                ELSE FeedDone
    /\ UNCHANGED <<known_feeds, files, tmpfiles, max_age, max_iterations, now, today,
                   last_run, probe, borrows, extraction, calls, opml>>

(***************************************************************************)
(* Feed::remove_duplicates (rss.rs:186-207), called at main.rs:95-110.     *)
(***************************************************************************)
\* rss.rs:194-206, with the result r of traverse_and_modify
AfterTraverse(feed, r) ==
    IF r.status = "err"
    THEN [status |-> "structural_error", feed |-> feed,
          existing_items |-> r.existing_items, error |-> r.error]
    ELSE IF r.status = "panic"
    THEN [status |-> "panic", feed |-> feed, existing_items |-> r.existing_items,
          error |-> <<>>]
    ELSE [status |-> "ok", feed |-> [feed EXCEPT !.content = Emit(r.element)],
          existing_items |-> r.existing_items, error |-> <<>>]

\* what a reader finds at the path of a feed's file: <<>> when there is none
FileAt(map, url) == IF url \in DOMAIN map THEN <<map[url]>> ELSE <<>>

\* status: "ok", "parse_error", "structural_error", "panic"
remove_duplicates(feed, existing_items, age, at) ==
    IF ~ParseOk(feed.content)
    THEN [status |-> "parse_error", feed |-> feed, existing_items |-> existing_items,
          error |-> ParseError(feed)]
    ELSE AfterTraverse(feed,
                       traverse_and_modify(feed.content.xml, existing_items, <<>>,
                                           age, at))

RemoveDuplicates ==
    /\ pc = "dedup"
    /\ IF BorrowConflict(borrows)
       THEN /\ pc' = "already_borrowed"
            /\ UNCHANGED <<known_feeds, feed_map, pass, idx, counter, borrows>>
       ELSE LET url == Urls[idx]
                r == remove_duplicates(feed_map[url], known_feeds, max_age, now)
            IN /\ pass' = [pass EXCEPT !.before = known_feeds, !.at = now,
                                        !.dedup = r.status,
                                        !.target = FileAt(files, url),
                                        !.error = r.error]
               /\ known_feeds' = r.existing_items
               /\ feed_map' = [feed_map EXCEPT ![url] = r.feed]
               /\ IF r.status = "ok"
                  THEN /\ pc' = "write"
                       /\ borrows' = BorrowMut(borrows)
                       /\ UNCHANGED <<idx, counter>>
                  ELSE IF r.status = "panic"
                  THEN /\ pc' = "aborted"
                       /\ borrows' = DropRefMut(BorrowMut(borrows))
                       /\ UNCHANGED <<idx, counter>>
                  ELSE /\ borrows' = DropRefMut(BorrowMut(borrows))
                       /\ FeedDone
    /\ UNCHANGED <<files, tmpfiles, max_age, max_iterations, now, today, last_run,
                   probe, extraction, calls, opml>>

(***************************************************************************)
(* Feed::write (rss.rs:210-219), called at main.rs:98-103.  A file is the  *)
(* text it holds and whether that text is there in full.  write() is three *)
(* calls to the file system, each of which can fail: File::create of the   *)
(* temporary file, write_all, rename.                                      *)
(***************************************************************************)
WriteOutcomes == {"ok", "create_failed", "write_failed", "rename_failed"}

Remove(map, key) == [k \in (DOMAIN map) \ {key} |-> map[k]]

File(text, complete) == [data |-> text, complete |-> complete]

\* a write that goes on to the rename after write_all has failed
writeIgnoringWriteError(url, feed, outcome, targets, temps) ==
    IF outcome = "create_failed" THEN [files |-> targets, tmpfiles |-> temps]
    ELSE IF outcome = "write_failed"
    THEN [files |-> Insert(targets, url, File(feed.content, FALSE)),
          tmpfiles |-> Remove(temps, url)]
    ELSE IF outcome = "rename_failed"
    THEN [files |-> targets, tmpfiles |-> Insert(temps, url, File(feed.content, TRUE))]
    ELSE [files |-> Insert(targets, url, File(feed.content, TRUE)),
          tmpfiles |-> Remove(temps, url)]

\* the files when write() returns with the outcome
write(url, feed, outcome, targets, temps) ==
    IF outcome = "create_failed" THEN [files |-> targets, tmpfiles |-> temps]
    ELSE IF outcome = "write_failed"
    THEN [files |-> targets, tmpfiles |-> Insert(temps, url, File(feed.content, FALSE))]
    ELSE IF outcome = "rename_failed"
    THEN [files |-> targets, tmpfiles |-> Insert(temps, url, File(feed.content, TRUE))]
    ELSE [files |-> Insert(targets, url, File(feed.content, TRUE)),
          tmpfiles |-> Remove(temps, url)]

\* a caller that gives up the run when write() returns an error
WrittenOrAborted(outcome) ==
    /\ files' = write(Urls[idx], feed_map[Urls[idx]], outcome, files, tmpfiles).files
    /\ tmpfiles' = write(Urls[idx], feed_map[Urls[idx]], outcome, files, tmpfiles).tmpfiles
    /\ pass' = [pass EXCEPT !.write = outcome,
                             !.error = WriteError(feed_map[Urls[idx]], outcome)]
    /\ borrows' = DropRefMut(borrows)
    /\ IF outcome = "ok" THEN FeedDone
       ELSE pc' = "aborted" /\ UNCHANGED <<idx, counter>>

\* main.rs:98-103: write() has returned
Written(outcome) ==
    /\ files' = write(Urls[idx], feed_map[Urls[idx]], outcome, files, tmpfiles).files
    /\ tmpfiles' = write(Urls[idx], feed_map[Urls[idx]], outcome, files, tmpfiles).tmpfiles
    /\ pass' = [pass EXCEPT !.write = outcome,
                             !.error = WriteError(feed_map[Urls[idx]], outcome)]
    /\ borrows' = DropRefMut(borrows)
    /\ FeedDone

\* rss.rs:212-213: the temporary file is created empty, or cannot be created
Create ==
    /\ pc = "write"
    /\ \/ Written("create_failed")
       \/ /\ tmpfiles' = Insert(tmpfiles, Urls[idx], File(EmptyText, FALSE))
          /\ pc' = "write_all"
          /\ UNCHANGED <<files, pass, idx, counter, borrows>>
    /\ UNCHANGED <<known_feeds, feed_map, max_age, max_iterations, now, today, last_run,
                   probe, extraction, calls, opml>>

\* rss.rs:214-215: the content is written in full, or the write fails on the way
WriteAll ==
    /\ pc = "write_all"
    /\ \/ Written("write_failed")
       \/ /\ tmpfiles' = Insert(tmpfiles, Urls[idx], File(feed_map[Urls[idx]].content, TRUE))
          /\ pc' = "rename"
          /\ UNCHANGED <<files, pass, idx, counter, borrows>>
    /\ UNCHANGED <<known_feeds, feed_map, max_age, max_iterations, now, today, last_run,
                   probe, extraction, calls, opml>>

\* rss.rs:216-218: the temporary file takes the place of the target, or stays
Rename ==
    /\ pc = "rename"
    /\ \/ Written("rename_failed")
       \/ Written("ok")
    /\ UNCHANGED <<known_feeds, feed_map, max_age, max_iterations, now, today, last_run,
                   probe, extraction, calls, opml>>

(***************************************************************************)
(* timer.rs:43-44: thread::sleep, during which the clock may advance and   *)
(* the date may change.                                                    *)
(***************************************************************************)
Sleep ==
    /\ pc = "sleep"
    /\ counter < MaxCounter
    /\ \E dt \in {0, 1}, dd \in {0, 1} :
          /\ now + dt <= MaxNow
          /\ today + dd <= MaxDay
          /\ now' = now + dt
          /\ today' = today + dd
    /\ pc' = "top"
    /\ UNCHANGED <<known_feeds, feed_map, files, tmpfiles, max_age, max_iterations,
                   last_run, counter, idx, pass, probe, borrows, extraction, calls, opml>>

Next ==
    \/ Clear
    \/ StartF1
    \/ ReadFails
    \/ Read
    \/ RemoveDuplicates
    \/ Create
    \/ WriteAll
    \/ Rename
    \/ Sleep

Spec == Init /\ [][Next]_vars

(***************************************************************************)
(* The retention filter on its own: the date check of the retain closure   *)
(* (rss.rs:91-98, with check_pub_date_not_older_than) applied to one item, *)
(* for every max_age of the parameter's range.                             *)
(***************************************************************************)
ProbeDates == {<<>>, <<"x">>} \cup {DateText(t) : t \in 0..(MaxNow + 2)}

ProbeItems ==
    {Item("p", <<LinkEl(LinkX), Title(<<"t">>)>>)}
        \cup {Item("p", <<LinkEl(LinkX), PubDate(d), Title(<<"t">>)>>) : d \in ProbeDates \ {<<>>}}
        \cup {Item("p", <<LinkEl(LinkX), EmptyPubDate, Title(<<"t">>)>>)}

InitRetention ==
    /\ known_feeds = EmptyMap
    /\ feed_map = EmptyMap
    /\ files = EmptyMap
    /\ tmpfiles = EmptyMap
    /\ max_age \in 0..U64Max
    /\ max_iterations = 0
    /\ now \in 0..MaxNow
    /\ today = 0
    /\ last_run = 0
    /\ counter = 0
    /\ pc = "retain"
    /\ idx = 0
    /\ pass = NoPass
    /\ \E item \in ProbeItems : probe = [NoProbe EXCEPT !.item = item]
    /\ borrows = 0
    /\ extraction = NoExtraction
    /\ calls = <<>>
    /\ opml = NoOpml

\* rss.rs:91-98: the closure reaches its verdict on the publish date
CheckPubDate ==
    /\ pc = "retain"
    /\ probe.verdict = "none"
    /\ probe' = [probe EXCEPT !.verdict = PubDateVerdict(probe.item, max_age, now)]
    /\ UNCHANGED <<known_feeds, feed_map, files, tmpfiles, max_age, max_iterations, now,
                   today, last_run, counter, pc, idx, pass, borrows, extraction, calls,
                   opml>>

NextRetention == CheckPubDate

SpecRetention == InitRetention /\ [][NextRetention]_vars

(***************************************************************************)
(* periodic_task on its own (timer.rs:7-45), with closures that do nothing *)
(* but get called, as in test_periodic_task: for every max_iterations up   *)
(* to MaxTimerIterations, and with a date that moves on by up to MaxJump   *)
(* days between two iterations.                                            *)
(***************************************************************************)
MaxTimerIterations == 4
MaxTimerCounter == 5
MaxTimerDay == 4
MaxJump == 2

\* a loop that resets only when more than one day has gone by
DateChangedByMore(date, last) == date > last + 1

\* timer.rs:18
DateChanged(date, last) == date # last

\* a loop that goes round once more than asked
BreakLate(limit, count) == limit > 0 /\ count > limit

\* timer.rs:39
Break(limit, count) == limit > 0 /\ count >= limit

Call(f, date) == [f |-> f, day |-> date]

InitTimer ==
    /\ known_feeds = EmptyMap
    /\ feed_map = EmptyMap
    /\ files = EmptyMap
    /\ tmpfiles = EmptyMap
    /\ max_age = 0
    /\ max_iterations \in 0..MaxTimerIterations
    /\ now = StartNow
    /\ today = 0
    /\ last_run = 0
    /\ counter = 0
    /\ pc = "timer_top"
    /\ idx = 0
    /\ pass = NoPass
    /\ probe = NoProbe
    /\ borrows = 0
    /\ extraction = NoExtraction
    /\ calls = <<>>
    /\ opml = NoOpml

\* timer.rs:15-33: the date has changed since the last reset, f2 is called
TimerF2 ==
    /\ pc = "timer_top"
    /\ DateChanged(today, last_run)
    /\ calls' = Append(calls, Call("f2", today))
    /\ last_run' = today
    /\ UNCHANGED <<known_feeds, feed_map, files, tmpfiles, max_age, max_iterations, now,
                   today, counter, pc, idx, pass, probe, borrows, extraction, opml>>

\* timer.rs:34-41: f1 is called; then the loop ends, or goes to sleep
TimerF1 ==
    /\ pc = "timer_top"
    /\ ~DateChanged(today, last_run)
    /\ calls' = Append(calls, Call("f1", today))
    /\ counter' = counter + 1
    /\ pc' = IF Break(max_iterations, counter + 1) THEN "timer_returned" ELSE "timer_sleep"
    /\ UNCHANGED <<known_feeds, feed_map, files, tmpfiles, max_age, max_iterations, now,
                   today, last_run, idx, pass, probe, borrows, extraction, opml>>

\* timer.rs:43 and 15: the sleep, and the date the next iteration finds
TimerSleep ==
    /\ pc = "timer_sleep"
    /\ counter < MaxTimerCounter
    /\ \E dd \in 0..MaxJump :
          /\ today + dd <= MaxTimerDay
          /\ today' = today + dd
    /\ pc' = "timer_top"
    /\ UNCHANGED <<known_feeds, feed_map, files, tmpfiles, max_age, max_iterations, now,
                   last_run, counter, idx, pass, probe, borrows, extraction, calls, opml>>

NextTimer ==
    \/ TimerF2
    \/ TimerF1
    \/ TimerSleep

SpecTimer == InitTimer /\ [][NextTimer]_vars

(***************************************************************************)
(* The regeneration of the feed list (utilities.rs:32-60, opml.rs:20-78):  *)
(* check_and_init_feeds has found the OPML file newer than the feed list,  *)
(* reads the previous list, patches the outlines and collects the new      *)
(* list.  The n-th UUID that generate_uuid hands out is the token UuidNo(n)*)
(* and differs from every UUID handed out before.                          *)
(***************************************************************************)
DDPrefix == <<"D", "D", "_">>

StartsWith(str, prefix) ==
    /\ Len(str) >= Len(prefix)
    /\ SubSeq(str, 1, Len(prefix)) = prefix

\* a lookup that takes the xmlUrl as it is
KeepPrefix(str, prefix) == str

\* opml.rs:49-53: strip_prefix(..).unwrap_or(xmlurl)
StripPrefixOrSelf(str, prefix) ==
    IF StartsWith(str, prefix) THEN SubSeq(str, Len(prefix) + 1, Len(str)) ELSE str

AlphaNumeric == Digits \cup Letters \cup {"p", "r", "t", "u", "D", "T"}

\* SANITIZE_REGEX.replace_all(url, "_") (ids.rs:16, 38): each run of
\* characters that are no letters and no digits becomes one underscore
RECURSIVE SanitizeFrom(_, _)
SanitizeFrom(url, i) ==
    IF i > Len(url) THEN <<>>
    ELSE IF url[i] \in AlphaNumeric THEN <<url[i]>> \o SanitizeFrom(url, i + 1)
    ELSE IF i > 1 /\ url[i - 1] \notin AlphaNumeric THEN SanitizeFrom(url, i + 1)
    ELSE <<"_">> \o SanitizeFrom(url, i + 1)

convert_url_to_filename(url) == SanitizeFrom(url, 1) \o <<".", "r", "s", "s">>

UuidNo(n) == <<"u", DigitChar(n)>>

convert_url_to_unique_filename(url, uuid) == uuid \o convert_url_to_filename(url)

SetAttr(element, name, value) ==
    [element EXCEPT !.attrs = {a \in @ : a[1] # name} \cup {<<name, value>>}]

\* utilities.rs:39-44: the previous list as a map from file name to source url
FeedsByFile(list) ==
    [file \in {list[i][2] : i \in DOMAIN list} |->
        list[Max({i \in DOMAIN list : list[i][2] = file})][1]]

\* opml.rs:27-34
IsNewFeed(element) ==
    ~(HasAttr(element, "title") /\ StartsWith(Attr(element, "title"), DDPrefix))

TitleDone(element) ==
    IF HasAttr(element, "title") /\ ~StartsWith(Attr(element, "title"), DDPrefix)
    THEN SetAttr(element, "title", DDPrefix \o Attr(element, "title"))
    ELSE element

\* opml.rs:35-39
TextDone(element, newfeed) ==
    IF HasAttr(element, "text") /\ newfeed
    THEN SetAttr(element, "text", DDPrefix \o Attr(element, "text"))
    ELSE element

Collected(element, collector) == [element |-> element, collector |-> collector]

\* opml.rs:42-46
NewXmlUrl(element, new_url_prefix, collector, old_xmlurl, new_filename) ==
    Collected(SetAttr(element, "xmlUrl", new_url_prefix \o new_filename),
              Append(collector, <<old_xmlurl, new_filename>>))

\* opml.rs:48-59
KnownXmlUrl(element, collector, previous_feeds, feedfile) ==
    IF feedfile \in DOMAIN previous_feeds
    THEN Collected(element, Append(collector, <<previous_feeds[feedfile], feedfile>>))
    ELSE Collected(element, collector)

\* opml.rs:40-61
XmlUrlDone(element, newfeed, new_url_prefix, collector, previous_feeds) ==
    IF ~HasAttr(element, "xmlUrl") THEN Collected(element, collector)
    ELSE IF newfeed
    THEN NewXmlUrl(element, new_url_prefix, collector, Attr(element, "xmlUrl"),
                   convert_url_to_unique_filename(Attr(element, "xmlUrl"),
                                                  UuidNo(Len(collector) + 1)))
    ELSE KnownXmlUrl(element, collector, previous_feeds,
                     StripPrefixOrSelf(Attr(element, "xmlUrl"), new_url_prefix))

modify_text_title_and_xmlurl_and_collect_changes(element, new_url_prefix, collector, previous_feeds) ==
    IF element.name # "outline" THEN Collected(element, collector)
    ELSE XmlUrlDone(TextDone(TitleDone(element), IsNewFeed(element)), IsNewFeed(element),
                    new_url_prefix, collector, previous_feeds)

\* opml.rs:65-78: the modifier on the element, then on its child elements
RECURSIVE OpmlTraverse(_, _, _, _), OpmlChildren(_, _, _, _)
OpmlChildDone(element, i, r, new_url_prefix, previous_feeds) ==
    OpmlChildren(Collected([element EXCEPT !.children[i] = r.element], r.collector),
                 i + 1, new_url_prefix, previous_feeds)

OpmlChildren(m, i, new_url_prefix, previous_feeds) ==
    IF i > Len(m.element.children) THEN m
    ELSE IF ~IsElement(m.element.children[i])
    THEN OpmlChildren(m, i + 1, new_url_prefix, previous_feeds)
    ELSE OpmlChildDone(m.element, i,
                       OpmlTraverse(m.element.children[i], m.collector, new_url_prefix,
                                    previous_feeds),
                       new_url_prefix, previous_feeds)

OpmlTraverse(element, collector, new_url_prefix, previous_feeds) ==
    OpmlChildren(modify_text_title_and_xmlurl_and_collect_changes(
                     element, new_url_prefix, collector, previous_feeds),
                 1, new_url_prefix, previous_feeds)

\* cli.up, a source url, and the file the previous list has for it
UrlPrefix == <<"p", "/">>
SourceUrl == <<"h", ":", "/", "/", "s">>
OtherUrl == <<"h", ":", "/", "/", "t">>
PreviousFile == <<"u", "0">> \o convert_url_to_filename(SourceUrl)
UnknownFile == <<"u", "9">> \o convert_url_to_filename(OtherUrl)

OutlineAttrs ==
    {{<<"title", t>> : t \in ts} \cup {<<"text", x>> : x \in xs}
        \cup {<<"xmlUrl", u>> : u \in us} :
        ts \in {{}, {<<"T">>}, {DDPrefix \o <<"T">>}},
        xs \in {{}, {<<"T">>}, {DDPrefix \o <<"T">>}},
        us \in {{}, {OtherUrl}, {UrlPrefix \o PreviousFile}, {UrlPrefix \o UnknownFile},
                {PreviousFile}}}

Opml(outlines) == Elem("opml", {}, <<Elem("body", {}, outlines)>>)

\* one outline, two outlines side by side, an outline inside another
OpmlDocs ==
    {Opml(<<Elem("outline", a, <<>>)>>) : a \in OutlineAttrs}
        \cup {Opml(<<Elem("outline", a, <<>>), Elem("outline", b, <<>>)>>) :
                a \in OutlineAttrs, b \in OutlineAttrs}
        \cup {Opml(<<Elem("outline", a, <<Elem("outline", b, <<>>)>>)>>) :
                a \in OutlineAttrs, b \in OutlineAttrs}

PreviousLists == {<<>>, <<<<SourceUrl, PreviousFile>>>>}

InitOpml ==
    /\ known_feeds = EmptyMap
    /\ feed_map = EmptyMap
    /\ files = EmptyMap
    /\ tmpfiles = EmptyMap
    /\ max_age = 0
    /\ max_iterations = 0
    /\ now = StartNow
    /\ today = 0
    /\ last_run = 0
    /\ counter = 0
    /\ pc = "init_feeds"
    /\ idx = 0
    /\ pass = NoPass
    /\ probe = NoProbe
    /\ borrows = 0
    /\ extraction = NoExtraction
    /\ calls = <<>>
    /\ \E doc \in OpmlDocs, list \in PreviousLists :
          opml = [NoOpml EXCEPT !.source = doc, !.previous = list]

Regenerated(state, r) ==
    [state EXCEPT !.target = r.element, !.feeds = r.collector, !.done = TRUE]

\* utilities.rs:38-59: the list is regenerated and read back
CheckAndInitFeeds ==
    /\ pc = "init_feeds"
    /\ ~opml.done
    /\ opml' = Regenerated(opml, OpmlTraverse(opml.source, <<>>, UrlPrefix,
                                              FeedsByFile(opml.previous)))
    /\ UNCHANGED <<known_feeds, feed_map, files, tmpfiles, max_age, max_iterations, now,
                   today, last_run, counter, pc, idx, pass, probe, borrows, extraction,
                   calls>>

NextOpml == CheckAndInitFeeds

SpecOpml == InitOpml /\ [][NextOpml]_vars

(***************************************************************************)
(* The identity extraction on its own (ids.rs:19-35), applied to one link: *)
(* every string over LinkAlphabet up to MaxLinkLen characters, and the     *)
(* links of the catalogue.                                                 *)
(***************************************************************************)
MaxLinkLen == 5

LinkAlphabet == {"h", ":", "/", "a", "1", "?"}

\* a version 4 UUID, a version 5 UUID in upper case, and 36 characters that
\* are no UUID (version nibble 6)
Uuid4 ==
    <<"1", "a", "2", "b", "3", "c", "4", "d", "-", "1", "2", "3", "4", "-",
      "4", "a", "b", "c", "-", "8", "d", "e", "f", "-", "1", "2", "3", "4",
      "5", "6", "7", "8", "9", "a", "b", "c">>
Uuid5Upper ==
    <<"1", "A", "2", "B", "3", "C", "4", "D", "-", "1", "2", "3", "4", "-",
      "5", "A", "B", "C", "-", "B", "D", "E", "F", "-", "1", "2", "3", "4",
      "5", "6", "7", "8", "9", "A", "B", "C">>
UuidVersion6 ==
    <<"1", "a", "2", "b", "3", "c", "4", "d", "-", "1", "2", "3", "4", "-",
      "6", "a", "b", "c", "-", "8", "d", "e", "f", "-", "1", "2", "3", "4",
      "5", "6", "7", "8", "9", "a", "b", "c">>

\* what stands before the identifier in a link: a host and the start of the
\* path (with a digit run or without), or a scheme alone (as in urn:uuid:...)
LinkHeads ==
    {Https \o <<"a", "/">>,
     Https \o <<"a", "/", "7", "6", "5", "4", "3", "2", "1", "/">>,
     <<"m", ":">>}

\* what follows it: nothing, a further segment with a digit run, a query
LinkTails == {<<>>, <<"/", "7", "6", "5", "4", "3", "2", "1">>, <<"?", "1">>}

UuidLinks ==
    {head \o uuid \o tail :
        head \in LinkHeads, uuid \in {Uuid4, Uuid5Upper, UuidVersion6}, tail \in LinkTails}

\* path segments of digits, underscores and a letter, around the length
\* NUMBER_REGEX asks for, alone or followed by a segment of six digits
MaxRunLen == 7

RunAlphabet == {"1", "_", "x"}

Runs == UNION {[1..n -> RunAlphabet] : n \in (NumberMinLen - 1)..MaxRunLen}

NumberLinks ==
    {Https \o <<"a", "/">> \o run \o tail :
        run \in Runs,
        tail \in {<<>>, <<"/", "2", "2", "2", "2", "2", "2">>,
                  <<"?", "7", "6", "5", "4", "3", "2", "1">>}}

Links ==
    UNION {[1..n -> LinkAlphabet] : n \in 0..MaxLinkLen}
        \cup {ChannelA, LinkX, LinkXq, LinkY, LinkZ, LinkW}
        \cup UuidLinks
        \cup NumberLinks

InitIds ==
    /\ known_feeds = EmptyMap
    /\ feed_map = EmptyMap
    /\ files = EmptyMap
    /\ tmpfiles = EmptyMap
    /\ max_age = 0
    /\ max_iterations = 0
    /\ now = StartNow
    /\ today = 0
    /\ last_run = 0
    /\ counter = 0
    /\ pc = "extract"
    /\ idx = 0
    /\ pass = NoPass
    /\ probe = NoProbe
    /\ borrows = 0
    /\ \E link \in Links : extraction = [NoExtraction EXCEPT !.link = link]
    /\ calls = <<>>
    /\ opml = NoOpml

\* rss.rs:65-67: the call returns, or the thread panics in it
Extract ==
    /\ pc = "extract"
    /\ extraction.result.kind = "pending"
    /\ extraction' = [extraction EXCEPT
                         !.result = extract_unique_id_and_host_from_url_string(extraction.link)]
    /\ UNCHANGED <<known_feeds, feed_map, files, tmpfiles, max_age, max_iterations, now,
                   today, last_run, counter, pc, idx, pass, probe, borrows, calls, opml>>

NextIds == Extract

SpecIds == InitIds /\ [][NextIds]_vars

(***************************************************************************)
(* Reading a pass: its input tree, its output tree, the items of a tree.   *)
(* In a state with pc = "write" the pass of feed pass.url has just         *)
(* returned Ok: known_feeds is the registry it leaves, pass.before the one *)
(* it found.                                                               *)
(***************************************************************************)
RECURSIVE Elements(_)
Elements(node) ==
    {node} \cup UNION {Elements(node.children[i]) : i \in {j \in 1..Len(node.children) : IsElement(node.children[j])}}

ItemsOf(tree) == {e \in Elements(tree) : e.name = "item"}

ChannelsOf(tree) == {e \in Elements(tree) : e.name = "channel"}

\* the link of a channel element (spec 4.4, step 1)
LinkOfChannel(c) == ChannelStep(c, <<>>).channel

ItemPositions(c) ==
    {j \in 1..Len(c.children) : IsElement(c.children[j]) /\ c.children[j].name = "item"}

\* the items of a tree that are children of a channel element, each with that
\* element, the link of that element, and its position among the children
ChannelItems(tree) ==
    UNION {{[channel |-> LinkOfChannel(c), item |-> c.children[j], of |-> c, pos |-> j] :
               j \in ItemPositions(c)} : c \in ChannelsOf(tree)}

Tag(item) == Attr(item, "n")

Tags(items) == {Tag(it) : it \in items}

Input == pass.input.xml

Output == feed_map[pass.url].content.xml

PassOk == pc = "write"

HasLink(item) == HasChild(item, "link")

IdentityOfItem(item) == IdentityOf(ExtractOfItem(item))

\* the date check of the retention filter lets the item through
PassesFilter(item) == PubDateVerdict(item, max_age, pass.at) = "true"

\* the item's identity is registered, before the pass, to another channel than ch
OwnedElsewhere(item, ch) ==
    /\ HasLink(item)
    /\ IdentityOfItem(item) \in DOMAIN pass.before
    /\ pass.before[IdentityOfItem(item)].channel # ch

(***************************************************************************)
(* C1  Cross-channel drop.  After a successful pass, an item of a channel  *)
(* B that has a link, passes the retention filter, and whose identity is   *)
(* registered to another channel is absent from the output.  And for a     *)
(* document of one channel B processed with max_age = 0 on a registry that *)
(* holds no entry of B (the empty registry for the first feed, the entries *)
(* of A for a second feed B): the output holds exactly the items of the    *)
(* input whose identity is not in the registry.                            *)
(***************************************************************************)
CrossChannelDrop ==
    PassOk =>
        /\ \A ci \in ChannelItems(Input) :
              (PassesFilter(ci.item) /\ OwnedElsewhere(ci.item, ci.channel))
                  => Tag(ci.item) \notin Tags(ItemsOf(Output))
        /\ ( /\ max_age = 0
             /\ Cardinality(ChannelsOf(Input)) = 1
             /\ \A c \in ChannelsOf(Input), id \in DOMAIN pass.before :
                    pass.before[id].channel # LinkOfChannel(c) )
                => Tags(ItemsOf(Output)) =
                      {Tag(it) : it \in {i \in ItemsOf(Input) :
                                            ~HasLink(i) \/ IdentityOfItem(i) \notin DOMAIN pass.before}}

\* feed B is processed after feed A registered an identity that B carries too
CrossChannelDropWitness ==
    /\ PassOk
    /\ max_age = 0
    /\ Cardinality(ChannelsOf(Input)) = 1
    /\ \E ci \in ChannelItems(Input) : OwnedElsewhere(ci.item, ci.channel)
    /\ \E ci \in ChannelItems(Input) : HasLink(ci.item) /\ Tag(ci.item) \in Tags(ItemsOf(Output))
    /\ \A c \in ChannelsOf(Input), id \in DOMAIN pass.before :
           pass.before[id].channel # LinkOfChannel(c)

(***************************************************************************)
(* C2  First-writer-wins.  Every step other than clear() leaves each entry *)
(* of the registry in place, with its owning channel and its canonical     *)
(* payload.                                                                *)
(***************************************************************************)
FirstWriterWins ==
    [][Clear \/ \A id \in DOMAIN known_feeds :
                   /\ id \in DOMAIN known_feeds'
                   /\ known_feeds'[id].channel = known_feeds[id].channel
                   /\ known_feeds'[id].element = known_feeds[id].element]_vars

\* a pass has met an identity the registry already held, and has added entries
FirstWriterWinsWitness ==
    /\ PassOk
    /\ \E it \in ItemsOf(Input) : HasLink(it) /\ IdentityOfItem(it) \in DOMAIN pass.before
    /\ \E ci \in ChannelItems(Input) :
           /\ HasLink(ci.item)
           /\ IdentityOfItem(ci.item) \in DOMAIN pass.before
           /\ pass.before[IdentityOfItem(ci.item)].channel = ci.channel
           /\ pass.before[IdentityOfItem(ci.item)].element # ci.item
    /\ DOMAIN known_feeds # DOMAIN pass.before

(***************************************************************************)
(* C6  Retention precedes registration.  Whatever way a pass ends, every   *)
(* entry it has added to the registry holds, as its payload, an item of    *)
(* the input that has this identity and that the retention filter let      *)
(* through in this pass; an item the filter rejected is the payload of no  *)
(* new entry.                                                              *)
(***************************************************************************)
PassRan == pass.dedup # "none" /\ pc # "top"

NewEntries == DOMAIN known_feeds \ DOMAIN pass.before

RetentionPrecedesRegistration ==
    PassRan =>
        \A id \in NewEntries :
            \E it \in ItemsOf(Input) :
                /\ HasLink(it)
                /\ IdentityOfItem(it) = id
                /\ known_feeds[id].element = it
                /\ PassesFilter(it)

\* the filter has rejected an item whose identity was free, and the pass has registered others
RetentionPrecedesRegistrationWitness ==
    /\ PassRan
    /\ max_age > 0
    /\ NewEntries # {}
    /\ \E it \in ItemsOf(Input) :
           /\ HasLink(it)
           /\ PubDateVerdict(it, max_age, pass.at) = "false"
           /\ IdentityOfItem(it) \notin DOMAIN known_feeds

(***************************************************************************)
(* C3  Same-channel canonicalization.  After a successful pass, an item    *)
(* that passes the retention filter and whose identity is registered to    *)
(* the item's own channel by an entry the item did not create itself (an   *)
(* earlier pass over the channel, or an earlier item of the document) is   *)
(* in the output, with the children of the entry's payload as its content. *)
(***************************************************************************)
SameChannelCanonicalization ==
    PassOk =>
        \A ci \in ChannelItems(Input) :
            ( /\ HasLink(ci.item)
              /\ PassesFilter(ci.item)
              /\ IdentityOfItem(ci.item) \in DOMAIN known_feeds
              /\ known_feeds[IdentityOfItem(ci.item)].channel = ci.channel
              /\ known_feeds[IdentityOfItem(ci.item)].element # ci.item )
            => \E o \in ItemsOf(Output) :
                  /\ Tag(o) = Tag(ci.item)
                  /\ o.children = known_feeds[IdentityOfItem(ci.item)].element.children

(***************************************************************************)
(* C4  First sighting.  After a successful pass, an item that passes the   *)
(* retention filter, whose identity the registry did not hold before the   *)
(* pass, and which is the first item of the document with that identity,   *)
(* is registered as (link of its channel, the item as in the input, time   *)
(* of the pass) and is in the output as it was in the input.               *)
(***************************************************************************)
FirstOfIdentity(ci) ==
    \A other \in ChannelItems(Input) :
        (HasLink(other.item) /\ IdentityOfItem(other.item) = IdentityOfItem(ci.item))
            => \/ other = ci
               \/ other.of = ci.of /\ other.pos > ci.pos

FirstSighting ==
    PassOk =>
        \A ci \in ChannelItems(Input) :
            ( /\ HasLink(ci.item)
              /\ PassesFilter(ci.item)
              /\ IdentityOfItem(ci.item) \notin DOMAIN pass.before
              /\ FirstOfIdentity(ci) )
            => /\ IdentityOfItem(ci.item) \in DOMAIN known_feeds
               /\ known_feeds[IdentityOfItem(ci.item)] =
                     [channel |-> ci.channel, element |-> ci.item, time |-> pass.at]
               /\ ci.item \in ItemsOf(Output)

(***************************************************************************)
(* C5  Single owner.  After a successful pass, every item with a link in   *)
(* the output belongs to the channel that the registry records as the      *)
(* owner of the item's identity.                                           *)
(***************************************************************************)
SingleOwner ==
    PassOk =>
        \A co \in ChannelItems(Output) :
            HasLink(co.item)
                => /\ IdentityOfItem(co.item) \in DOMAIN known_feeds
                   /\ known_feeds[IdentityOfItem(co.item)].channel = co.channel

(***************************************************************************)
(* C7  No expired item in output.  After a successful pass with            *)
(* max_age > 0, every item of the output whose publish date parses, with   *)
(* or without a link, rewritten or not, is at most max_age hours old at    *)
(* the time of the pass.                                                   *)
(***************************************************************************)
PubDateOf(item) == parse_from_rfc2822(get_text_or_default(get_child(item, "pubDate")))

HasParsedDate(item) == HasChild(item, "pubDate") /\ PubDateOf(item).ok

NoExpiredItemInOutput ==
    (PassOk /\ max_age > 0) =>
        \A o \in ItemsOf(Output) :
            HasParsedDate(o) => pass.at - PubDateOf(o).t <= max_age * TicksPerHour

(***************************************************************************)
(* C8  Retention policy.  With max_age = 0 the filter keeps every item;    *)
(* with max_age > 0 it keeps an item whose publish date parses if and only *)
(* if now - date <= max_age hours.                                         *)
(***************************************************************************)
Probed == probe.verdict # "none"

RetentionPolicy ==
    Probed =>
        /\ max_age = 0 => probe.verdict = "true"
        /\ (max_age > 0 /\ HasParsedDate(probe.item))
              => (probe.verdict = "true"
                    <=> now - PubDateOf(probe.item).t <= max_age * TicksPerHour)

(***************************************************************************)
(* C9  Retention fails open.  For every max_age, the filter keeps an item  *)
(* that has no publish date, or whose publish-date text does not parse.    *)
(***************************************************************************)
RetentionFailsOpen ==
    (Probed /\ ~HasParsedDate(probe.item)) => probe.verdict = "true"

(***************************************************************************)
(* C10  Failure leaves the registry untouched.  When the pass of a feed    *)
(* has failed (the document does not parse, a channel has no link) or its  *)
(* output could not be published, the registry holds exactly the entries   *)
(* it held before the pass.                                                *)
(***************************************************************************)
FeedFailed ==
    /\ pc # "top"
    /\ \/ pass.dedup \in {"parse_error", "structural_error"}
       \/ pass.write \in WriteOutcomes \ {"ok"}

FailureLeavesRegistryUntouched == FeedFailed => known_feeds = pass.before

(***************************************************************************)
(* C3, C4 and C5 on documents in which no channel element is nested in     *)
(* another: there the three statements hold, so what refutes them is the   *)
(* channel that traverse_and_modify carries on after a nested channel.     *)
(***************************************************************************)
NoNesting == \A c \in ChannelsOf(Input) : ChannelsOf(c) = {c}

SameChannelCanonicalizationNoNesting ==
    (PassOk /\ NoNesting) => SameChannelCanonicalization

FirstSightingNoNesting == (PassOk /\ NoNesting) => FirstSighting

SingleOwnerNoNesting == (PassOk /\ NoNesting) => SingleOwner

\* C8 for the values of max_age that a Duration can hold
RetentionPolicyInRange == (max_age <= MaxDurationHours) => RetentionPolicy

(***************************************************************************)
(* C11  Nested channel scoping.  Every entry a pass adds to the registry   *)
(* names, as owner, the link of the channel element that encloses the      *)
(* registered item, also for the items of an outer channel that follow a   *)
(* nested channel.                                                         *)
(***************************************************************************)
NestedChannelScoping ==
    PassRan =>
        \A id \in NewEntries :
            \A ci \in ChannelItems(Input) :
                ci.item = known_feeds[id].element
                    => known_feeds[id].channel = ci.channel

(***************************************************************************)
(* C12  Order preservation.  After a successful pass, the items of each    *)
(* channel element of the output are, in their order, a subsequence of the *)
(* items of the same channel element of the input: none is moved,          *)
(* duplicated or added.  Channel elements correspond by their position in  *)
(* document order; an item is named by its attributes, which a rewrite of  *)
(* its content leaves alone.                                               *)
(***************************************************************************)
RECURSIVE ElementSeq(_)
RECURSIVE ElementSeqOfChildren(_, _)
ElementSeqOfChildren(children, i) ==
    IF i > Len(children) THEN <<>>
    ELSE IF IsElement(children[i])
    THEN ElementSeq(children[i]) \o ElementSeqOfChildren(children, i + 1)
    ELSE ElementSeqOfChildren(children, i + 1)

\* the elements of a tree in document order
ElementSeq(node) == <<node>> \o ElementSeqOfChildren(node.children, 1)

ChannelSeq(tree) == SelectSeq(ElementSeq(tree), LAMBDA e : e.name = "channel")

IsItemNode(node) == IsElement(node) /\ node.name = "item"

\* the item children of an element, in their order, each by its attributes
ItemNames(c) ==
    LET items == SelectSeq(c.children, IsItemNode)
    IN [i \in 1..Len(items) |-> items[i].attrs]

RECURSIVE IsSubsequence(_, _)
IsSubsequence(a, b) ==
    IF a = <<>> THEN TRUE
    ELSE IF b = <<>> THEN FALSE
    ELSE IF Head(a) = Head(b) THEN IsSubsequence(Tail(a), Tail(b))
    ELSE IsSubsequence(a, Tail(b))

OrderPreservation ==
    PassOk =>
        /\ Len(ChannelSeq(Output)) = Len(ChannelSeq(Input))
        /\ \A k \in 1..Len(ChannelSeq(Input)) :
              IsSubsequence(ItemNames(ChannelSeq(Output)[k]), ItemNames(ChannelSeq(Input)[k]))

\* a pass has dropped an item and kept two or more, one of them rewritten
OrderPreservationWitness ==
    /\ PassOk
    /\ \E k \in 1..Len(ChannelSeq(Input)) :
           /\ Len(ItemNames(ChannelSeq(Output)[k])) >= 2
           /\ Len(ItemNames(ChannelSeq(Output)[k])) < Len(ItemNames(ChannelSeq(Input)[k]))
    /\ \E o \in ItemsOf(Output) : o \notin ItemsOf(Input)

(***************************************************************************)
(* C13  Frame of the rewrite.  After a successful pass, the tree without   *)
(* its item elements is the same in the output as in the input: every node *)
(* outside the items is there, with its content, at its position among its *)
(* siblings that are not items.                                            *)
(***************************************************************************)
RECURSIVE Frame(_)
RECURSIVE FrameOfChildren(_, _)
FrameOfChildren(children, i) ==
    IF i > Len(children) THEN <<>>
    ELSE IF IsItemNode(children[i]) THEN FrameOfChildren(children, i + 1)
    ELSE <<Frame(children[i])>> \o FrameOfChildren(children, i + 1)

\* the node without the item elements below it
Frame(node) ==
    IF ~IsElement(node) THEN node
    ELSE [node EXCEPT !.children = FrameOfChildren(node.children, 1)]

FrameOfRewrite == PassOk => Frame(Output) = Frame(Input)

\* a pass has changed the items of a document that has nodes outside its items
FrameOfRewriteWitness ==
    /\ PassOk
    /\ Tags(ItemsOf(Output)) # Tags(ItemsOf(Input))
    /\ \E o \in ItemsOf(Output) : o \notin ItemsOf(Input)
    /\ \E e \in Elements(Frame(Input)) : e.name = "title"

(***************************************************************************)
(* C14  Channel identity.  The identity of a channel element is the text   *)
(* of its link child, else the href attribute of that child; every owner a *)
(* pass records is such an identity, and in a document without nested      *)
(* channels it is the identity of the item's channel.  When a channel      *)
(* element of a document that parses has no link child, or a link with     *)
(* neither, the pass does not return Ok: unless the process has aborted in *)
(* the date check before, it returns the structural error; the stored      *)
(* content stays the fetched text and no publish runs.                     *)
(***************************************************************************)
HasIdentity(c) ==
    /\ HasChild(c, "link")
    /\ HasText(get_child(c, "link")) \/ HasAttr(get_child(c, "link"), "href")

ChannelIdentity(c) ==
    IF HasText(get_child(c, "link"))
    THEN get_text_or_default(get_child(c, "link"))
    ELSE Attr(get_child(c, "link"), "href")

LacksIdentity == \E c \in ChannelsOf(Input) : ~HasIdentity(c)

ChannelIdentityHrefWitness ==
    /\ PassOk
    /\ \E c \in ChannelsOf(Input), id \in NewEntries :
           /\ ~HasText(get_child(c, "link"))
           /\ known_feeds[id].channel = Attr(get_child(c, "link"), "href")

(***************************************************************************)
(* C15  Change-detection shortcut.  read() reports unchanged exactly when  *)
(* the fetched text has a lastBuildDate line and that line, the first one  *)
(* the scan finds, equals the stored marker; it reports changed when the   *)
(* line differs or is absent, and always on the first fetch.  After        *)
(* unchanged, no rewriting pass and no publish runs for the feed in the    *)
(* tick.                                                                   *)
(***************************************************************************)
ReadDone == pass.read \in {"changed", "unchanged"}

MarkerOf(text) == IF text.build = <<>> THEN <<>> ELSE text.build[1]

ChangeDetectionShortcut ==
    ReadDone =>
        /\ pass.read = "unchanged"
              <=> (pass.input.build # <<>> /\ MarkerOf(pass.input) = pass.marker)
        /\ pass.marker = <<>> => pass.read = "changed"
        /\ pass.read = "unchanged" =>
              /\ pass.dedup = "none"
              /\ pass.write = "none"
              /\ pc \notin {"dedup", "write"}

\* a fetch has brought the stored marker again, and the feed's tick is over
ChangeDetectionShortcutWitness ==
    /\ pass.read = "unchanged"
    /\ pass.marker # <<>>
    /\ pass.url \in DOMAIN files

\* a text was reported changed although a later line of it repeats the stored marker
ChangeDetectionFirstLineWitness ==
    /\ pass.read = "changed"
    /\ Len(pass.input.build) > 1
    /\ pass.input.build[2] = pass.marker

(***************************************************************************)
(* C16  Atomic publish.  From the call of write() on, during its three     *)
(* steps and after it, the target holds in full either what it held before *)
(* or the new content, never a part of it; and when write() has returned   *)
(* an error the target holds what it held before.                          *)
(***************************************************************************)
Publishing == pc \in {"write", "write_all", "rename"} \/ pass.write # "none"

NewFile == File(feed_map[pass.url].content, TRUE)

AtomicPublish ==
    /\ \A url \in DOMAIN files : files[url].complete
    /\ Publishing =>
          /\ FileAt(files, pass.url) \in {pass.target, <<NewFile>>}
          /\ pass.write = "ok" => FileAt(files, pass.url) = <<NewFile>>
          /\ pass.write \in WriteOutcomes \ {"ok"} => FileAt(files, pass.url) = pass.target

\* write_all has failed on a feed that was published before with another content
AtomicPublishWitness ==
    /\ pass.write = "write_failed"
    /\ pass.target # <<>>
    /\ pass.target # <<NewFile>>
    /\ pass.url \in DOMAIN tmpfiles
    /\ ~tmpfiles[pass.url].complete

(***************************************************************************)
(* C17  Per-feed failure isolation.  The step in which the fetch, the      *)
(* parse, the traversal or the publish of a feed fails leaves that feed    *)
(* and goes on: to the read of the next feed of the tick, or after the     *)
(* last feed to the end of the tick (the sleep, or the return of a bounded *)
(* run).  The read of a feed, the end of the sleep and the start of the    *)
(* next tick with the first feed can always be taken, whatever failed      *)
(* before.                                                                 *)
(***************************************************************************)
FeedFailure ==
    \/ pass.read = "failed"
    \/ pass.dedup \in {"parse_error", "structural_error"}
    \/ pass.write \in WriteOutcomes \ {"ok"}

\* after the feed at idx: the next feed, or the end of the tick
GoesOn ==
    IF idx < Len(Urls)
    THEN pc' = "read" /\ idx' = idx + 1
    ELSE pc' \in {"sleep", "done"} /\ (pc' = "done" => max_iterations > 0)

FailureIsolation ==
    /\ [][(pass' # pass /\ FeedFailure') => GoesOn]_vars
    /\ [](pc = "read" => (idx \in 1..Len(Urls) /\ ENABLED Read /\ ENABLED ReadFails))
    /\ []((pc = "sleep" /\ counter < MaxCounter) => ENABLED Sleep)
    /\ [](pc = "top" => ENABLED (Clear \/ StartF1))
    /\ [][StartF1 => (pc' = "read" /\ idx' = 1)]_vars

\* in one tick the publish of the first feed failed and the second feed was published
FailureIsolationWitness ==
    /\ counter = 1
    /\ Urls[1] \in DOMAIN tmpfiles
    /\ ~tmpfiles[Urls[1]].complete
    /\ Urls[1] \notin DOMAIN files
    /\ pass.url = Urls[2]
    /\ pass.write = "ok"

\* the parts of the Err value the last operation of the pass returned
ErrorOf == pass.error
CarriesUrl == \E i \in DOMAIN ErrorOf : ErrorOf[i] = pass.url
CarriesCause == ErrorOf # <<>>

\* C18: every failure a core operation returns (read, remove_duplicates, write)
\* carries the url of the offending feed together with the cause, and none
\* of them aborts the process
TypedFailures ==
    FeedFailure => (CarriesUrl /\ CarriesCause /\ pc # "aborted")

\* the part of C18 the code keeps: a failed fetch and a text that does not
\* parse are reported with the url, and every such failure is returned
TypedFailuresOfReadAndParse ==
    (pass.read = "failed" \/ pass.dedup = "parse_error")
        => (CarriesUrl /\ CarriesCause /\ pc # "aborted")

\* a feed's pass is in flight from its read to the return of its last call;
\* it holds the registry while the guard of main.rs:95 is alive
InFlight == pc \in {"read", "dedup", "write", "write_all", "rename"}
HoldsRegistry == borrows > 0

\* C19: the registry reset never executes while a pass holds the registry (or
\* is in flight at all), no two passes hold it at the same time, and no
\* borrow_mut of the registry's handle meets a guard that is still alive
RegistryExclusivity ==
    /\ [][Clear => (~HoldsRegistry /\ ~InFlight)]_vars
    /\ [][known_feeds' = EmptyMap => (known_feeds = EmptyMap \/ Clear)]_vars
    /\ [](borrows \in {0, 1})
    /\ [](HoldsRegistry => (InFlight /\ idx \in 1..Len(Urls)))
    /\ [](pc # "already_borrowed")

\* the reset has run between two ticks, after passes that held the registry
\* and filled it, and the second feed's pass holds the registry of the next tick
RegistryExclusivityWitness ==
    /\ HoldsRegistry
    /\ idx = 2
    /\ counter = 1
    /\ last_run = 1
    /\ pass.before # EmptyMap

Extracted == extraction.result.kind # "pending"
Parseable == UrlParse(extraction.link).ok

\* C20: the identity extraction returns None for every link that is not a
\* parseable URL and Some((id, host)) for every parseable one, and never
\* aborts, a parseable URL without a host included
ExtractionIsTotal ==
    Extracted =>
        /\ extraction.result.kind # "panic"
        /\ ~Parseable => extraction.result.kind = "none"
        /\ Parseable => extraction.result.kind = "some"

\* the part of C20 the code keeps: None exactly for the links that do not
\* parse, and Some with the parser's host for the parseable links with a host
ExtractionOfLinksWithHost ==
    Extracted =>
        /\ ~Parseable <=> extraction.result.kind = "none"
        /\ (Parseable /\ UrlParse(extraction.link).has_host)
              => /\ extraction.result.kind = "some"
                 /\ extraction.result.host = UrlParse(extraction.link).host

\* a valid UUID at position i of the path: 8-4-4-4-12 hexadecimal digits,
\* version nibble 1..5, variant nibble 8, 9, a or b
UuidGroups == <<8, 4, 4, 4, 12>>
UuidDashes == {9, 14, 19, 24}
UuidVersionAt == 15
UuidVariantAt == 20
ValidUuidAt(path, i) ==
    /\ i >= 1
    /\ i + 35 <= Len(path)
    /\ \A k \in 1..36 :
          IF k \in UuidDashes THEN path[i + k - 1] = "-"
          ELSE path[i + k - 1] \in HexDigits
    /\ path[i + UuidVersionAt - 1] \in {"1", "2", "3", "4", "5"}
    /\ path[i + UuidVariantAt - 1] \in {"8", "9", "a", "b", "A", "B"}

LinkPath == UrlParse(extraction.link).path
ValidUuids == {i \in 1..Len(LinkPath) : ValidUuidAt(LinkPath, i)}
IdIsUuid ==
    /\ extraction.result.kind = "some"
    /\ \E i \in ValidUuids : extraction.result.id = Slice(LinkPath, i, i + 35)

\* C21: for every parseable link whose path contains a valid UUID the
\* extracted id is that UUID substring in its original case, whatever digit
\* runs the path has before or after it
UuidPriority ==
    (Extracted /\ Parseable /\ ValidUuids # {}) => IdIsUuid

\* the part of C21 the code keeps: the statement for the links with a host
UuidPriorityWithHost ==
    (Extracted /\ Parseable /\ UrlParse(extraction.link).has_host /\ ValidUuids # {})
        => IdIsUuid

UuidPriorityWithHostWitness ==
    /\ Extracted
    /\ extraction.link = Https \o <<"a", "/", "7", "6", "5", "4", "3", "2", "1", "/">>
                             \o Uuid5Upper \o <<"/", "7", "6", "5", "4", "3", "2", "1">>
    /\ extraction.result.id = Uuid5Upper

\* the runs of digits and underscores of the path: where one starts, where
\* it ends, how many digits it has
RunStartsAt(path, i) ==
    /\ path[i] \in Digits \cup {"_"}
    /\ i = 1 \/ path[i - 1] \notin Digits \cup {"_"}
RunEndsAt(path, i) ==
    Min({j \in i..Len(path) : j = Len(path) \/ path[j + 1] \notin Digits \cup {"_"}})
DigitsIn(str) == Cardinality({k \in 1..Len(str) : str[k] \in Digits})
RunAt(path, i) == Slice(path, i, RunEndsAt(path, i))
LongRuns ==
    {i \in 1..Len(LinkPath) :
        RunStartsAt(LinkPath, i) /\ DigitsIn(RunAt(LinkPath, i)) >= NumberMinLen}
IsShortRun(str) ==
    /\ str # <<>>
    /\ \A k \in 1..Len(str) : str[k] \in Digits \cup {"_"}
    /\ DigitsIn(str) < NumberMinLen
IdIsFirstLongRun ==
    /\ extraction.result.kind = "some"
    /\ LongRuns # {} => extraction.result.id = RunAt(LinkPath, Min(LongRuns))
    /\ ~IsShortRun(extraction.result.id)

\* C22: for every parseable link whose path contains no UUID the extracted
\* id is the first run of the path that has at least 6 digits (underscores
\* allowed inside the run); a run of digits and underscores with fewer than
\* 6 digits is not selected, and digits outside the path are ignored
NumericFallback ==
    (Extracted /\ Parseable /\ ValidUuids = {}) => IdIsFirstLongRun

\* the part of C22 the code keeps: the statement for the links with a host
\* whose path has no underscore
NumericFallbackOfDigits ==
    (/\ Extracted
     /\ Parseable
     /\ UrlParse(extraction.link).has_host
     /\ ValidUuids = {}
     /\ \A k \in 1..Len(LinkPath) : LinkPath[k] # "_")
        => IdIsFirstLongRun

\* reading the calls of periodic_task: an iteration is the f1 call at k and
\* what was called since the f1 call before it
F1Calls == {k \in DOMAIN calls : calls[k].f = "f1"}
F2Calls == {k \in DOMAIN calls : calls[k].f = "f2"}
PrevOf(S, k) == IF {j \in S : j < k} = {} THEN 0 ELSE Max({j \in S : j < k})
StartupDay == 0
DayOfPrev(S, k) == IF PrevOf(S, k) = 0 THEN StartupDay ELSE calls[PrevOf(S, k)].day
ResetsIn(k) == {j \in F2Calls : PrevOf(F1Calls, k) < j /\ j < k}
DaysBegun == {d \in 1..MaxTimerDay : \E k \in F1Calls : calls[k].day >= d}
FirstIterationFrom(d) == Min({k \in F1Calls : calls[k].day >= d})

BoundedRun ==
    /\ max_iterations > 0 =>
          /\ Cardinality(F1Calls) <= max_iterations
          /\ pc = "timer_returned" <=> Cardinality(F1Calls) = max_iterations
    /\ max_iterations = 0 => pc # "timer_returned"
    /\ pc = "timer_top" => ENABLED (TimerF1 \/ TimerF2)
    /\ (pc = "timer_top" /\ calls # <<>> /\ calls[Len(calls)].f = "f2") => ENABLED TimerF1
    /\ (pc = "timer_sleep" /\ counter < MaxTimerCounter) => ENABLED TimerSleep
    /\ counter = Cardinality(F1Calls)

BoundedRunWitness ==
    /\ pc = "timer_returned"
    /\ max_iterations = MaxTimerIterations
    /\ Cardinality(F1Calls) = MaxTimerIterations

BoundedRunUnlimitedWitness ==
    /\ max_iterations = 0
    /\ Cardinality(F1Calls) = MaxTimerCounter

\* reading a regeneration: the outlines of the source and of the patched
\* document, in document order, and the previous list
OutlineSeq(tree) == SelectSeq(ElementSeq(tree), LAMBDA e : e.name = "outline")
SourceOutlines == OutlineSeq(opml.source)
TargetOutlines == OutlineSeq(opml.target)
PreviousFiles == {opml.previous[j][2] : j \in DOMAIN opml.previous}
Marked(outline) ==
    /\ HasAttr(outline, "title")
    /\ StartsWith(Attr(outline, "title"), DDPrefix)
FileOf(outline) ==
    IF StartsWith(Attr(outline, "xmlUrl"), UrlPrefix)
    THEN SubSeq(Attr(outline, "xmlUrl"), Len(UrlPrefix) + 1, Len(Attr(outline, "xmlUrl")))
    ELSE Attr(outline, "xmlUrl")
Known(outline) ==
    /\ Marked(outline)
    /\ HasAttr(outline, "xmlUrl")
    /\ FileOf(outline) \in PreviousFiles
Kept(i) ==
    /\ TargetOutlines[i].attrs = SourceOutlines[i].attrs
    /\ \E k \in DOMAIN opml.feeds, j \in DOMAIN opml.previous :
          /\ opml.feeds[k] = opml.previous[j]
          /\ opml.feeds[k][2] = FileOf(SourceOutlines[i])
Prefixed(i) ==
    \A name \in {"title", "text"} :
        /\ HasAttr(TargetOutlines[i], name) <=> HasAttr(SourceOutlines[i], name)
        /\ HasAttr(SourceOutlines[i], name)
              => Attr(TargetOutlines[i], name) = DDPrefix \o Attr(SourceOutlines[i], name)
FreshFile(i) ==
    /\ HasAttr(TargetOutlines[i], "xmlUrl")
    /\ \E k \in DOMAIN opml.feeds, n \in DOMAIN opml.feeds :
          /\ opml.feeds[k][1] = Attr(SourceOutlines[i], "xmlUrl")
          /\ opml.feeds[k][2] = UuidNo(n) \o SanitizeFrom(opml.feeds[k][1], 1)
                                          \o <<".", "r", "s", "s">>
          /\ Attr(TargetOutlines[i], "xmlUrl") = UrlPrefix \o opml.feeds[k][2]
          /\ opml.feeds[k][2] \notin PreviousFiles
          /\ \A other \in DOMAIN opml.feeds :
                other # k => opml.feeds[other][2] # opml.feeds[k][2]
SameShape ==
    /\ Len(TargetOutlines) = Len(SourceOutlines)
    /\ DOMAIN TargetOutlines = DOMAIN SourceOutlines

\* C25 as stated: every marked outline whose file is in the previous list
\* keeps its pair, title, text and xmlUrl; every unmarked outline gets the
\* DD_ prefix and a fresh UUID-based file name; the list has one entry per
\* such outline
FeedListRegenerationOfEveryOutline ==
    opml.done =>
        /\ SameShape
        /\ \A i \in DOMAIN SourceOutlines :
              /\ Known(SourceOutlines[i]) => Kept(i)
              /\ ~Marked(SourceOutlines[i]) => (Prefixed(i) /\ FreshFile(i))
        /\ Len(opml.feeds) =
              Cardinality({i \in DOMAIN SourceOutlines :
                              Known(SourceOutlines[i]) \/ ~Marked(SourceOutlines[i])})

\* C25, for the outlines that name a feed: every marked outline whose file
\* is in the previous list keeps its pair, title, text and xmlUrl; every
\* unmarked outline gets the DD_ prefix on the title and the text it has,
\* and, when it has an xmlUrl, a fresh UUID-based file name; the list has one
\* entry per known marked outline and per unmarked outline with an xmlUrl
FeedListRegeneration ==
    opml.done =>
        /\ SameShape
        /\ \A i \in DOMAIN SourceOutlines :
              /\ Known(SourceOutlines[i]) => Kept(i)
              /\ ~Marked(SourceOutlines[i]) => Prefixed(i)
              /\ (~Marked(SourceOutlines[i]) /\ HasAttr(SourceOutlines[i], "xmlUrl"))
                    => FreshFile(i)
        /\ Len(opml.feeds) =
              Cardinality({i \in DOMAIN SourceOutlines :
                              \/ Known(SourceOutlines[i])
                              \/ /\ ~Marked(SourceOutlines[i])
                                 /\ HasAttr(SourceOutlines[i], "xmlUrl")})

\* a list regenerated from a marked outline of the previous list and a new one
FeedListRegenerationWitness ==
    /\ opml.done
    /\ Len(SourceOutlines) = 2
    /\ Known(SourceOutlines[1])
    /\ ~Marked(SourceOutlines[2])
    /\ HasAttr(SourceOutlines[2], "title")
    /\ HasAttr(SourceOutlines[2], "xmlUrl")
    /\ Len(opml.feeds) = 2

StoredMarker(url) == FeedOf(feed_map, url).last_build_date
Fetched == pass'.read \in {"changed", "unchanged"} /\ pc = "read"

\* C26: read() stores the fetched build marker before the rewriting pass and
\* the publish run, and neither a failed pass nor a failed publish restores
\* the old one; so every later fetch that carries the same marker reports
\* unchanged, and the feed is not processed or published again until its
\* marker changes
MarkerCommittedBeforePass ==
    /\ [](ReadDone /\ pass.input.build # <<>>
            => StoredMarker(pass.url) = MarkerOf(pass.input))
    /\ [][pc # "read" => \A url \in UrlSet : StoredMarker(url)' = StoredMarker(url)]_vars
    /\ [][(Fetched /\ pass'.input.build # <<>>
               /\ MarkerOf(pass'.input) = StoredMarker(Urls[idx]))
            => /\ pass'.read = "unchanged"
               /\ pc' \notin {"dedup", "write", "write_all", "rename"}
               /\ files' = files
               /\ known_feeds' = known_feeds]_vars

\* the feed's text did not parse or its publish failed, so it has no file;
\* the next fetch brought the same marker and was reported unchanged
MarkerCommittedBeforePassWitness ==
    /\ pass.read = "unchanged"
    /\ pass.url = Urls[1]
    /\ pass.marker # <<>>
    /\ Urls[1] \notin DOMAIN files
    /\ counter >= 1

(***************************************************************************)
(* C27  Shared default identity.  After a successful pass, every item of   *)
(* a channel that has a link child whose text is not a parseable URL (the  *)
(* empty text included) and that the date check lets through has been      *)
(* resolved under the one identity ("", ""): the registry holds that       *)
(* identity, and every entry the pass has added under another identity     *)
(* carries a link that is a URL.  When the registry held ("", "") for      *)
(* another channel before the pass, the item is absent from the output,    *)
(* whatever its link text.                                                 *)
(***************************************************************************)
LinkText(item) == get_text_or_default(get_child(item, "link"))

Unparseable(item) == HasLink(item) /\ ~UrlParse(LinkText(item)).ok

DefaultOwnedElsewhere(ch) ==
    /\ DefaultIdentity \in DOMAIN pass.before
    /\ pass.before[DefaultIdentity].channel # ch

SharedDefaultIdentity ==
    PassOk =>
        /\ \A ci \in ChannelItems(Input) :
              (Unparseable(ci.item) /\ PassesFilter(ci.item))
                  => /\ DefaultIdentity \in DOMAIN known_feeds
                     /\ DefaultOwnedElsewhere(ci.channel)
                            => Tag(ci.item) \notin Tags(ItemsOf(Output))
        /\ \A id \in NewEntries :
              id # DefaultIdentity => ~Unparseable(known_feeds[id].element)

\* an item is dropped for an item of another channel whose link text is another
\* string, neither of them a URL
SharedDefaultIdentityWitness ==
    /\ PassOk
    /\ \E ci \in ChannelItems(Input) :
           /\ Unparseable(ci.item)
           /\ PassesFilter(ci.item)
           /\ DefaultOwnedElsewhere(ci.channel)
           /\ Unparseable(pass.before[DefaultIdentity].element)
           /\ LinkText(pass.before[DefaultIdentity].element) # LinkText(ci.item)
           /\ Tag(ci.item) \notin Tags(ItemsOf(Output))

(***************************************************************************)
(* C28  Items without a link.  After a successful pass every item element  *)
(* of the input that has no link child is in the output as it was in the   *)
(* input, whatever its pubDate and whatever max_age; and no step gives the *)
(* registry an entry whose payload has no link child.                      *)
(***************************************************************************)
Linkless(tree) == {it \in ItemsOf(tree) : ~HasLink(it)}

ItemsWithoutLink ==
    /\ [](PassOk => Linkless(Input) \subseteq ItemsOf(Output))
    /\ [][\A id \in DOMAIN known_feeds' \ DOMAIN known_feeds :
              HasLink(known_feeds'[id].element)]_vars

\* the date check has removed an item with a link, and has left alone an item
\* without a link whose pubDate is as old
ItemsWithoutLinkWitness ==
    /\ PassOk
    /\ max_age > 0
    /\ DOMAIN known_feeds # DOMAIN pass.before
    /\ \E it \in Linkless(Input) :
           /\ ~PassesFilter(it)
           /\ it \in ItemsOf(Output)
           /\ \E other \in ItemsOf(Input) :
                  /\ HasLink(other)
                  /\ get_child(other, "pubDate") = get_child(it, "pubDate")
                  /\ Tag(other) \notin Tags(ItemsOf(Output))

(***************************************************************************)
(* C29  Ownership across a reset.  A clear() that returns leaves the       *)
(* registry empty and every feed's marker, content and published file as   *)
(* they were.  Every entry a successful pass adds to the registry is owned *)
(* by a channel of the processed document that holds an item of that       *)
(* identity which the date check lets through; who owned the identity      *)
(* before the reset, and which published files still hold it, plays no     *)
(* part.                                                                   *)
(***************************************************************************)
Cleared == pc = "top" /\ today # last_run /\ pc' = "top"

ClearKeepsFeeds ==
    [][Cleared => /\ known_feeds' = EmptyMap
                  /\ feed_map' = feed_map
                  /\ files' = files]_vars

\* the channels of the input that hold the identity, in an item that gets
\* through the date check
Holders(id) ==
    {ci.channel : ci \in {c \in ChannelItems(Input) :
                             /\ HasLink(c.item)
                             /\ IdentityOfItem(c.item) = id
                             /\ PassesFilter(c.item)}}

OwnedByHolder == \A id \in NewEntries : known_feeds[id].channel \in Holders(id)

OwnershipAcrossReset == ClearKeepsFeeds /\ [](PassOk => OwnedByHolder)

\* C29 for the documents in which no channel is nested in a channel
OwnershipAcrossResetNoNesting ==
    ClearKeepsFeeds /\ []((PassOk /\ NoNesting) => OwnedByHolder)

\* the published file of another feed still holds an item of an identity that
\* this pass has registered, under the channel that owned it before the reset
OwnershipAcrossResetReached ==
    /\ PassOk
    /\ NoNesting
    /\ \E id \in NewEntries, url \in DOMAIN files \ {pass.url} :
           \E ci \in ChannelItems(files[url].data.xml) :
               /\ HasLink(ci.item)
               /\ IdentityOfItem(ci.item) = id
               /\ ci.channel # known_feeds[id].channel

(***************************************************************************)
(* C30  max_age conversion.  For every max_age > 0 of the parameter's      *)
(* range the date check answers true for an item whose publish date parses *)
(* and is at most max_age hours old; the signed hour count the bound is    *)
(* made of is max_age itself, never a negative number, and the check       *)
(* returns.                                                                *)
(***************************************************************************)
WithinMaxAge ==
    /\ HasParsedDate(probe.item)
    /\ now - PubDateOf(probe.item).t <= max_age * TicksPerHour

MaxAgeConversion ==
    (Probed /\ max_age > 0) =>
        /\ AsI64(max_age) = max_age
        /\ probe.verdict # "panic"
        /\ WithinMaxAge => probe.verdict = "true"

\* C30 for the hour counts that a Duration can hold
MaxAgeConversionInRange == (max_age <= MaxDurationHours) => MaxAgeConversion

\* the bound itself: an item that is exactly max_age hours old, max_age the
\* largest hour count a Duration holds
MaxAgeConversionInRangeReached ==
    /\ Probed
    /\ max_age = MaxDurationHours
    /\ HasParsedDate(probe.item)
    /\ probe.verdict = "true"

====
